---- MODULE Spec2Model ----
(***************************************************************************)
(* Loyalty ledger of casona-api: DataManager.registrar_compra and          *)
(* DataManager.resgatar_premio (src/datamanager.py) run by several workers *)
(* against one PostgreSQL database (READ COMMITTED, row locks, unique      *)
(* constraints).  Each SQL statement that reads or locks shared rows is    *)
(* one step; a transaction's writes stay in its own write set until        *)
(* conn.commit() applies them.  The email thread registrar_compra starts   *)
(* after its commit is followed up to its start.                           *)
(*                                                                         *)
(* Amounts (valor, total_gasto) are in thousandths of a real, so that an   *)
(* amount below one cent exists; valor_resgatado is in centavos; dates are *)
(* day numbers.                                                            *)
(***************************************************************************)
EXTENDS Integers, Sequences, FiniteSets, TLC

(* ------------------------------ bounds --------------------------------- *)
NumWorkers == 2
NumClientes == 2
NumCodigos == 2
MaxChamadas == 3
MaxDias == 1
MaxCentavos == 1000
MaxCompras == 2

(* ------------------------- program constants --------------------------- *)
JanelaDias == 180
LimiteCiclo == 5
\* SimpleConnectionPool(minconn=2, maxconn=15)
maxconn == 15

Workers == 1..NumWorkers
Clientes == 1..NumClientes
\* codigo 0 is an identifier no row of clientes carries
CodigosCliente == 0..NumClientes
\* the values random.randint(10000, 99999) can draw
Codigos == 1..NumCodigos
\* 0.005 and 5.00
Valores == {5, 5000}
\* the amounts of whole cents from 0.01 to MaxCentavos / 100
ValoresEmCentavos == {10 * n : n \in 1..MaxCentavos}
DiaInicial == JanelaDias
\* clientes.email is nullable: the customers with an odd codigo have an address
EmailInicial(c) == c % 2 = 1
ComprasIniciais == LimiteCiclo - 1

VARIABLES
    clientes,            \* table clientes: codigo -> row
    compras,             \* table compras: codigo_cliente -> rows in commit order
    premios_ativos,      \* table premios_ativos: set of rows
    premios_resgatados,  \* table premios_resgatados: rows in commit order
    codigo_cliente_seq,  \* the sequence codigo_cliente_seq: the last value nextval gave
    ultimo_recalculo,    \* per customer, the date read by the last committed recompute
    lockCliente,         \* row locks on clientes: codigo -> holder (0: none)
    lockPremio,          \* row / index-entry locks on premios_ativos: codigo_premio -> holder
    tx,                  \* per worker: position, locals and write set of its call
    notificacoes,        \* the email threads started so far, in order of start
    hoje,                \* datetime.now().date()
    chamadas,            \* calls started so far
    connection_pool,     \* the connections checked out of the pool (getconn without putconn)
    historico,           \* what each completed call returned, in order of completion
    base,                \* the committed tables when the current batch of calls began
    inicio_lote          \* Len(historico) when the current batch of calls began

dbVars == <<clientes, compras, premios_ativos, premios_resgatados, ultimo_recalculo,
            codigo_cliente_seq>>
lockVars == <<lockCliente, lockPremio>>
histVars == <<historico, base, inicio_lote>>
vars == <<clientes, compras, premios_ativos, premios_resgatados, ultimo_recalculo,
          codigo_cliente_seq,
          lockCliente, lockPremio, tx, notificacoes, hoje, chamadas, connection_pool,
          historico, base, inicio_lote>>

(* ------------------------------ helpers -------------------------------- *)

\* The committed tables as one value.
DB ==
    [clientes |-> clientes, compras |-> compras, premios_ativos |-> premios_ativos,
     premios_resgatados |-> premios_resgatados, ultimo_recalculo |-> ultimo_recalculo]

RECURSIVE Expoente(_)
\* the exponent of the binary64 float n: the largest E with 2^E <= n (n >= 1)
Expoente(n) == IF n < 2 THEN 0 ELSE 1 + Expoente(n \div 2)

RECURSIVE Pot2(_)
Pot2(k) == IF k <= 0 THEN 1 ELSE 2 * Pot2(k - 1)

RECURSIVE Pot2Mod(_, _)
\* 2^k modulo m
Pot2Mod(k, m) == IF k <= 0 THEN 1 % m ELSE (2 * Pot2Mod(k - 1, m)) % m

\* int(valor * 100) for the float valor of a request that gives an amount of
\* centavos whole cents (valor: float, binary64, round to nearest even).
\*   valor is the float nearest to centavos / 100: with e its exponent and
\*   s = 52 - e, valor = m / 2^s for the integer m nearest to centavos * 2^s / 100,
\*   so that 100 * valor = centavos - delta / 2^s with
\*   delta = centavos * 2^s - 100 * m, the remainder r of centavos * 2^s by 100
\*   when m was rounded down and r - 100 when it was rounded up (r is never 50:
\*   centavos * 2^s is a multiple of 4).
\*   valor * 100 is the float nearest to that product.  The floats just below
\*   centavos are 2^(E - 52) apart (2^(E - 53) when centavos is a power of two),
\*   E being the exponent of centavos, so the product rounds to a float below
\*   centavos exactly when delta / 2^s is more than half of that (at exactly half
\*   it rounds to centavos, whose mantissa is even); int() then truncates to
\*   centavos - 1.
IntValorVezes100(centavos) ==
    LET E == Expoente(centavos)
        e == IF centavos * 64 >= 100 * Pot2(E) THEN E - 6 ELSE E - 7
        s == 52 - e
        r == (centavos * Pot2Mod(s, 100)) % 100
        delta == IF r > 50 THEN r - 100 ELSE r
        meio == IF centavos = Pot2(E) THEN Pot2(E - e - 2) ELSE Pot2(E - e - 1)
    IN IF delta > meio THEN centavos - 1 ELSE centavos

\* pontos_gerados = int(valor * 100), valor being in thousandths of a real: an
\* amount of whole cents goes through the float product; the product of any other
\* amount is at least a tenth away from an integer and truncates as the real does
PontosGerados(valor) ==
    IF valor % 10 = 0 THEN IntValorVezes100(valor \div 10) ELSE (valor * 100) \div 1000

RECURSIVE SomaPontos(_, _)
\* SUM(pontos_gerados) ... WHERE data >= data_limite, over a sequence of compras rows
SomaPontos(linhas, data_limite) ==
    IF linhas = <<>> THEN 0
    ELSE (IF Head(linhas).data >= data_limite THEN Head(linhas).pontos_gerados ELSE 0)
         + SomaPontos(Tail(linhas), data_limite)

RECURSIVE SeqDe(_)
\* the rows of a set as a sequence (the set holds at most one row in every use)
SeqDe(S) == IF S = {} THEN <<>> ELSE LET x == CHOOSE y \in S : TRUE IN <<x>> \o SeqDe(S \ {x})

CompraInicial(c, n) ==
    [codigo_cliente |-> c, numero_compra_geral |-> n, valor |-> 5000,
     pontos_gerados |-> PontosGerados(5000), data |-> 0]

TxOcioso ==
    [pc |-> "idle", op |-> "nenhuma", codigo |-> 0, valor |-> 0, codigo_premio |-> 0,
     cliente_data |-> {}, pontos_gerados |-> 0, data_atual |-> 0, data_calculo |-> 0,
     compras_ciclo_atual_novo |-> 0, total_compras_geral |-> 0,
     pontos_totais_validos |-> 0, premio_ativo |-> {}, codigo_premio_ativo |-> 0,
     premio_gerado_agora |-> FALSE, pontos_resgatados |-> 0, tentativas |-> 0,
     w_compras |-> {}, w_cliente |-> {}, w_recalculo |-> {},
     w_premios_del |-> {}, w_premios_ins |-> {}, w_resgatados |-> {},
     compras_vistas |-> 0, data_lista |-> 0, historico_compras_validas |-> <<>>,
     novo_codigo |-> <<>>, inicio |-> 0]

SemResultado ==
    [op |-> "nenhuma", status |-> "nenhum", motivo |-> "", codigo |-> 0, valor |-> 0,
     codigo_premio |-> 0, pontos_nesta_compra |-> 0, compras_no_ciclo |-> 0,
     pontos_acumulados |-> 0, codigo_premio_ativo |-> 0,
     premio_gerado_nesta_compra |-> FALSE, valor_resgatado |-> 0,
     tentativas |-> 0, data_atual |-> 0, data_calculo |-> 0, inicio |-> 0,
     pontos_premio |-> 0, habilitado_para_gerar_premio |-> FALSE,
     compras_vistas |-> 0, data_lista |-> 0, historico_compras_validas |-> <<>>,
     novo_codigo |-> <<>>, commit |-> FALSE]

(* -------------------------------- Init --------------------------------- *)

\* Every customer has made ComprasIniciais purchases of 5.00 on day 0 and the
\* service has just been constructed (_iniciar_banco_de_dados leaves both prize
\* tables empty).
Init ==
    /\ clientes = [c \in Clientes |->
          [email |-> EmailInicial(c),
           total_compras |-> ComprasIniciais,
           total_gasto |-> ComprasIniciais * 5000,
           compras_ciclo_atual |-> ComprasIniciais,
           pontos_acumulados |-> ComprasIniciais * PontosGerados(5000)]]
    /\ compras = [c \in Clientes |-> [n \in 1..ComprasIniciais |-> CompraInicial(c, n)]]
    /\ premios_ativos = {}
    /\ premios_resgatados = <<>>
    /\ codigo_cliente_seq = NumClientes
    /\ ultimo_recalculo = [c \in Clientes |-> 0]
    /\ lockCliente = [c \in Clientes |-> 0]
    /\ lockPremio = [k \in Codigos |-> 0]
    /\ tx = [w \in Workers |-> TxOcioso]
    /\ notificacoes = <<>>
    /\ hoje = DiaInicial
    /\ chamadas = 0
    /\ connection_pool = 0
    /\ historico = <<>>
    /\ base = [clientes |-> clientes, compras |-> compras, premios_ativos |-> {},
               premios_resgatados |-> <<>>, ultimo_recalculo |-> [c \in Clientes |-> 0]]
    /\ inicio_lote = 0

(* ------------------- statements, as functions of a --------------------- *)
(* ------------------- call's record t and the tables db ------------------ *)

\* mutant of UpdateClienteCompra: the cycle counter starts over once it has reached
\* the threshold
UpdateClienteCompraZeraCiclo(linha, valor, ciclo_novo) ==
    [linha EXCEPT !.total_compras = @ + 1,
                  !.total_gasto = @ + valor,
                  !.compras_ciclo_atual = IF ciclo_novo >= LimiteCiclo THEN 0 ELSE ciclo_novo]

\* mutant of UpdateClienteCompra: the UPDATE does not add the amount to total_gasto
UpdateClienteCompraSemValor(linha, valor, ciclo_novo) ==
    [linha EXCEPT !.total_compras = @ + 1,
                  !.compras_ciclo_atual = ciclo_novo]

\* UPDATE clientes SET total_compras = total_compras + 1, total_gasto = total_gasto + valor,
\* compras_ciclo_atual = compras_ciclo_atual_novo
UpdateClienteCompra(linha, valor, ciclo_novo) ==
    [linha EXCEPT !.total_compras = @ + 1,
                  !.total_gasto = @ + valor,
                  !.compras_ciclo_atual = ciclo_novo]

\* SELECT ... FOR UPDATE on clientes, the locals, INSERT INTO compras, UPDATE clientes
TxSelectForUpdate(t, db, dia) ==
    LET linha == db.clientes[t.codigo]
        novo == linha.compras_ciclo_atual + 1
        geral == linha.total_compras + 1
        pg == PontosGerados(t.valor)
    IN [t EXCEPT
          !.pc = "rc_calc",
          !.cliente_data = {[email |-> linha.email,
                             total_compras |-> linha.total_compras,
                             compras_ciclo_atual |-> linha.compras_ciclo_atual]},
          !.pontos_gerados = pg,
          !.data_atual = dia,
          !.compras_ciclo_atual_novo = novo,
          !.total_compras_geral = geral,
          !.w_compras = {[codigo_cliente |-> t.codigo, numero_compra_geral |-> geral,
                          valor |-> t.valor, pontos_gerados |-> pg, data |-> dia]},
          !.w_cliente = {UpdateClienteCompra(linha, t.valor, novo)}]

\* the clientes row the transaction sees: its own pending version, else the committed one
LinhaCliente(t, db) ==
    IF t.w_cliente # {} THEN CHOOSE r \in t.w_cliente : TRUE ELSE db.clientes[t.codigo]

\* mutant of calcular_pontos_validos: the query has no "AND data >= %s"
calcular_pontos_validos_sem_janela(linhas, dia) == SomaPontos(linhas, 0)

\* mutant of calcular_pontos_validos: the query has "AND data > %s"
calcular_pontos_validos_limite_exclusivo(linhas, dia) ==
    SomaPontos(linhas, dia - JanelaDias + 1)

\* _calcular_pontos_validos: the sum over the customer's purchases in the window
calcular_pontos_validos(linhas, dia) == SomaPontos(linhas, dia - JanelaDias)

\* mutant of TxCalcular: the UPDATE adds the sum to the cached balance
TxCalcularSomaAoSaldo(t, db, dia, proximo) ==
    LET s == calcular_pontos_validos(db.compras[t.codigo] \o SeqDe(t.w_compras), dia)
    IN [t EXCEPT
          !.pc = proximo,
          !.pontos_totais_validos = s,
          !.data_calculo = dia,
          !.w_cliente = {[LinhaCliente(t, db) EXCEPT !.pontos_acumulados = @ + s]},
          !.w_recalculo = {dia}]

\* _calcular_pontos_validos as called by a transaction: it sees the committed
\* purchases and its own insert, and writes the sum onto the customer row
TxCalcular(t, db, dia, proximo) ==
    LET s == calcular_pontos_validos(db.compras[t.codigo] \o SeqDe(t.w_compras), dia)
    IN [t EXCEPT
          !.pc = proximo,
          !.pontos_totais_validos = s,
          !.data_calculo = dia,
          !.w_cliente = {[LinhaCliente(t, db) EXCEPT !.pontos_acumulados = s]},
          !.w_recalculo = {dia}]

\* SELECT codigo_premio FROM premios_ativos WHERE codigo_cliente = %s
SelectPremioDoCliente(db, c) == {p \in db.premios_ativos : p.codigo_cliente = c}

\* mutant of TransicaoPremio: the threshold test is > instead of >=
TransicaoPremioAcimaDoLimite(t) ==
    IF t.premio_ativo # {} THEN "acumula"
    ELSE IF t.compras_ciclo_atual_novo > LimiteCiclo /\ t.pontos_totais_validos > 0
         THEN "gera"
         ELSE "nada"

\* the branch of lines 211-221
TransicaoPremio(t) ==
    IF t.premio_ativo # {} THEN "acumula"
    ELSE IF t.compras_ciclo_atual_novo >= LimiteCiclo /\ t.pontos_totais_validos > 0
         THEN "gera"
         ELSE "nada"

\* the SELECT on premios_ativos and, in the branch that generates a prize, the
\* draw k of random.randint
TxSelectPremio(t, db, k) ==
    LET pa == SelectPremioDoCliente(db, t.codigo)
        t1 == [t EXCEPT !.pc = "rc_premio", !.premio_ativo = pa]
    IN CASE TransicaoPremio(t1) = "acumula" ->
              [t1 EXCEPT !.codigo_premio_ativo = (CHOOSE p \in pa : TRUE).codigo_premio]
         [] TransicaoPremio(t1) = "gera" -> [t1 EXCEPT !.codigo_premio_ativo = k]
         [] OTHER -> t1

\* the row INSERT INTO premios_ativos writes
NovoPremio(t) ==
    [codigo_premio |-> t.codigo_premio_ativo, codigo_cliente |-> t.codigo,
     pontos_premio |-> t.pontos_totais_validos, data_geracao |-> t.data_atual,
     data_ultima_atualizacao |-> t.data_atual]

\* PRIMARY KEY (codigo_premio) and UNIQUE (codigo_cliente) of premios_ativos
ViolaUnicidade(ativos, linha) ==
    \E p \in ativos : \/ p.codigo_premio = linha.codigo_premio
                      \/ p.codigo_cliente = linha.codigo_cliente

\* the INSERT of line 218 raises IntegrityError
FalhaIntegridade(t, db) ==
    /\ TransicaoPremio(t) = "gera"
    /\ ViolaUnicidade(db.premios_ativos, NovoPremio(t))

\* mutant of TxPremio: the accumulation writes the new version of the prize row
\* and leaves the old one in the table
TxPremioSemSubstituir(t, db) ==
    LET alvo == SelectPremioDoCliente(db, t.codigo)
        t1 == [t EXCEPT !.pc = "rc_commit"]
    IN CASE TransicaoPremio(t) = "acumula" ->
              [t1 EXCEPT
                 !.w_premios_ins =
                    {[p EXCEPT !.pontos_premio = @ + t.pontos_gerados,
                               !.data_ultima_atualizacao = t.data_atual] : p \in alvo}]
         [] TransicaoPremio(t) = "gera" ->
              [t1 EXCEPT !.w_premios_ins = {NovoPremio(t)}, !.premio_gerado_agora = TRUE,
                         !.tentativas = @ + 1]
         [] OTHER -> t1

\* mutant of TxPremio: the accumulation only stamps the date, the points of the
\* purchase are not added
TxPremioSemAcumular(t, db) ==
    LET alvo == SelectPremioDoCliente(db, t.codigo)
        t1 == [t EXCEPT !.pc = "rc_commit"]
    IN CASE TransicaoPremio(t) = "acumula" ->
              [t1 EXCEPT
                 !.w_premios_del = alvo,
                 !.w_premios_ins =
                    {[p EXCEPT !.data_ultima_atualizacao = t.data_atual] : p \in alvo}]
         [] TransicaoPremio(t) = "gera" ->
              [t1 EXCEPT !.w_premios_ins = {NovoPremio(t)}, !.premio_gerado_agora = TRUE,
                         !.tentativas = @ + 1]
         [] OTHER -> t1

\* UPDATE premios_ativos (accumulate) or INSERT INTO premios_ativos (generate)
TxPremio(t, db) ==
    LET alvo == SelectPremioDoCliente(db, t.codigo)
        t1 == [t EXCEPT !.pc = "rc_commit"]
    IN CASE TransicaoPremio(t) = "acumula" ->
              [t1 EXCEPT
                 !.w_premios_del = alvo,
                 !.w_premios_ins =
                    {[p EXCEPT !.pontos_premio = @ + t.pontos_gerados,
                               !.data_ultima_atualizacao = t.data_atual] : p \in alvo}]
         [] TransicaoPremio(t) = "gera" ->
              [t1 EXCEPT !.w_premios_ins = {NovoPremio(t)}, !.premio_gerado_agora = TRUE,
                         !.tentativas = @ + 1]
         [] OTHER -> t1

\* conn.commit(): the write set becomes the committed tables
Efetivar(db, t) ==
    [clientes |->
        IF t.w_cliente = {} THEN db.clientes
        ELSE [db.clientes EXCEPT ![t.codigo] = CHOOSE r \in t.w_cliente : TRUE],
     compras |->
        IF t.w_compras = {} THEN db.compras
        ELSE [db.compras EXCEPT ![t.codigo] = @ \o SeqDe(t.w_compras)],
     premios_ativos |-> (db.premios_ativos \ t.w_premios_del) \cup t.w_premios_ins,
     premios_resgatados |-> db.premios_resgatados \o SeqDe(t.w_resgatados),
     ultimo_recalculo |->
        IF t.w_recalculo = {} THEN db.ultimo_recalculo
        ELSE [db.ultimo_recalculo EXCEPT ![t.codigo] = CHOOSE d \in t.w_recalculo : TRUE]]

\* mutant of ResultadoCompra: compras_no_ciclo is the counter read by the SELECT,
\* before this purchase was counted
ResultadoCompraCicloAntigo(t) ==
    [SemResultado EXCEPT
       !.op = "compra", !.status = "ok", !.codigo = t.codigo, !.valor = t.valor,
       !.pontos_nesta_compra = t.pontos_gerados,
       !.compras_no_ciclo = t.compras_ciclo_atual_novo - 1,
       !.pontos_acumulados = t.pontos_totais_validos,
       !.codigo_premio_ativo = t.codigo_premio_ativo,
       !.premio_gerado_nesta_compra = t.premio_gerado_agora,
       !.tentativas = t.tentativas,
       !.data_atual = t.data_atual, !.data_calculo = t.data_calculo,
       !.inicio = t.inicio, !.commit = TRUE]

\* resultado_compra (lines 226-232)
ResultadoCompra(t) ==
    [SemResultado EXCEPT
       !.op = "compra", !.status = "ok", !.codigo = t.codigo, !.valor = t.valor,
       !.pontos_nesta_compra = t.pontos_gerados,
       !.compras_no_ciclo = t.compras_ciclo_atual_novo,
       !.pontos_acumulados = t.pontos_totais_validos,
       !.codigo_premio_ativo = t.codigo_premio_ativo,
       !.premio_gerado_nesta_compra = t.premio_gerado_agora,
       !.tentativas = t.tentativas,
       !.data_atual = t.data_atual, !.data_calculo = t.data_calculo,
       !.inicio = t.inicio, !.commit = TRUE]

\* mutant of ResultadoSem: every call that ends without a result snapshot raises,
\* the missing customer included
ResultadoSemSempreFalha(t, status, motivo) ==
    [SemResultado EXCEPT
       !.op = t.op, !.status = "falha", !.motivo = motivo, !.codigo = t.codigo,
       !.valor = t.valor, !.codigo_premio = t.codigo_premio,
       !.codigo_premio_ativo = t.codigo_premio_ativo, !.tentativas = t.tentativas,
       !.data_atual = t.data_atual, !.data_calculo = t.data_calculo,
       !.inicio = t.inicio]

\* a call that ends without a result snapshot: "notfound" (return None / False) or
\* "falha" (the except branch: rollback, raise Exception)
ResultadoSem(t, status, motivo) ==
    [SemResultado EXCEPT
       !.op = t.op, !.status = status, !.motivo = motivo, !.codigo = t.codigo,
       !.valor = t.valor, !.codigo_premio = t.codigo_premio,
       !.codigo_premio_ativo = t.codigo_premio_ativo, !.tentativas = t.tentativas,
       !.data_atual = t.data_atual, !.data_calculo = t.data_calculo,
       !.inicio = t.inicio]

\* if cliente_data.get('email')
TemEmail(t) == \E d \in t.cliente_data : d.email

\* the call's record once conn.commit() has returned: nothing is pending
TxAposCommit(t) ==
    [t EXCEPT !.pc = "rc_email", !.w_compras = {}, !.w_cliente = {}, !.w_recalculo = {},
              !.w_premios_del = {}, !.w_premios_ins = {}]

\* the thread started at lines 235-239: send_purchase_update_email with the
\* customer's address and resultado_compra
Notificacao(t) ==
    [tipo |-> "compra", para |-> t.codigo,
     pontos_nesta_compra |-> t.pontos_gerados,
     compras_no_ciclo |-> t.compras_ciclo_atual_novo,
     pontos_acumulados |-> t.pontos_totais_validos,
     codigo_premio_ativo |-> t.codigo_premio_ativo,
     premio_gerado_nesta_compra |-> t.premio_gerado_agora]

\* round(pontos_resgatados / 100, 2), in centavos
ValorResgatado(pontos) == pontos

\* SELECT * FROM premios_ativos WHERE codigo_premio = %s
SelectPremioPorCodigo(db, k) == {p \in db.premios_ativos : p.codigo_premio = k}

\* mutant of TxResgateSelect: the DELETE FROM premios_ativos is missing
TxResgateSelectSemDelete(t, db, dia) ==
    LET pa == SelectPremioPorCodigo(db, t.codigo_premio)
        p == CHOOSE q \in pa : TRUE
    IN [t EXCEPT
          !.pc = "rp_upd",
          !.premio_ativo = pa,
          !.codigo = p.codigo_cliente,
          !.pontos_resgatados = p.pontos_premio,
          !.data_atual = dia,
          !.w_resgatados =
             {[codigo_premio |-> t.codigo_premio, codigo_cliente |-> p.codigo_cliente,
               pontos_resgatados |-> p.pontos_premio,
               valor_resgatado |-> ValorResgatado(p.pontos_premio),
               data_geracao |-> p.data_geracao, data_resgate |-> dia]}]

\* the prize row found (lines 307-314), INSERT INTO premios_resgatados, DELETE FROM
\* premios_ativos
TxResgateSelect(t, db, dia) ==
    LET pa == SelectPremioPorCodigo(db, t.codigo_premio)
        p == CHOOSE q \in pa : TRUE
    IN [t EXCEPT
          !.pc = "rp_upd",
          !.premio_ativo = pa,
          !.codigo = p.codigo_cliente,
          !.pontos_resgatados = p.pontos_premio,
          !.data_atual = dia,
          !.w_resgatados =
             {[codigo_premio |-> t.codigo_premio, codigo_cliente |-> p.codigo_cliente,
               pontos_resgatados |-> p.pontos_premio,
               valor_resgatado |-> ValorResgatado(p.pontos_premio),
               data_geracao |-> p.data_geracao, data_resgate |-> dia]},
          !.w_premios_del = pa]

\* mutant of UpdateClienteResgate: the UPDATE of the cycle counter is missing
UpdateClienteResgateSemZerar(linha) == linha

\* UPDATE clientes SET compras_ciclo_atual = 0
UpdateClienteResgate(linha) == [linha EXCEPT !.compras_ciclo_atual = 0]

\* UPDATE clientes SET compras_ciclo_atual = 0, then _calcular_pontos_validos
TxResgateUpdate(t, db, dia) ==
    TxCalcular([t EXCEPT !.w_cliente = {UpdateClienteResgate(db.clientes[t.codigo])}],
               db, dia, "rp_commit")

\* mutant of ResultadoResgate: the committed redemption returns False, "Prêmio
\* inválido ou já resgatado."
ResultadoResgateInvalido(t) ==
    [SemResultado EXCEPT
       !.op = "resgate", !.status = "notfound", !.codigo = t.codigo,
       !.codigo_premio = t.codigo_premio,
       !.data_atual = t.data_atual, !.data_calculo = t.data_calculo,
       !.inicio = t.inicio, !.commit = TRUE]

\* return True, "Prêmio de R$ ... resgatado com sucesso!"
ResultadoResgate(t) ==
    [SemResultado EXCEPT
       !.op = "resgate", !.status = "ok", !.codigo = t.codigo,
       !.codigo_premio = t.codigo_premio,
       !.valor_resgatado = ValorResgatado(t.pontos_resgatados),
       !.data_atual = t.data_atual, !.data_calculo = t.data_calculo,
       !.inicio = t.inicio, !.commit = TRUE]

(* ---------------- statements of obter_status_fidelidade ----------------- *)

\* line 253: SELECT * FROM clientes WHERE codigo = %s (no row lock)
TxStatusSelect(t, db) ==
    LET linha == db.clientes[t.codigo]
    IN [t EXCEPT
          !.pc = "st_soma",
          !.cliente_data = {[email |-> linha.email,
                             total_compras |-> linha.total_compras,
                             compras_ciclo_atual |-> linha.compras_ciclo_atual]}]

\* _calcular_pontos_validos, lines 135-138: the date and the SELECT of the sum over
\* the purchases committed so far
TxStatusSoma(t, db, dia) ==
    [t EXCEPT
       !.pc = "st_upd",
       !.pontos_totais_validos = calcular_pontos_validos(db.compras[t.codigo], dia),
       !.data_calculo = dia,
       !.compras_vistas = Len(db.compras[t.codigo])]

\* mutant of TxStatusUpdate: the sum is returned and not written onto the row
TxStatusUpdateSemGravar(t, db) ==
    [t EXCEPT !.pc = "st_premio", !.w_cliente = {db.clientes[t.codigo]}]

\* _calcular_pontos_validos, lines 139-141: UPDATE clientes SET pontos_acumulados,
\* on the row as committed when the UPDATE gets its lock
TxStatusUpdate(t, db) ==
    [t EXCEPT
       !.pc = "st_premio",
       !.w_cliente = {[db.clientes[t.codigo] EXCEPT
                          !.pontos_acumulados = t.pontos_totais_validos]},
       !.w_recalculo = {t.data_calculo}]

\* lines 260-262: SELECT codigo_premio, pontos_premio FROM premios_ativos
TxStatusPremio(t, db) ==
    [t EXCEPT !.pc = "st_lista", !.premio_ativo = SelectPremioDoCliente(db, t.codigo)]

\* the columns valor, pontos_gerados, data of a compras row
LinhaDoHistorico(linha) ==
    [valor |-> linha.valor, pontos_gerados |-> linha.pontos_gerados, data |-> linha.data]

RECURSIVE OrdenadasPorDataDesc(_, _)
\* ORDER BY data DESC over the rows linhas[i], i in I: every order in which no row
\* comes before a row of a later date (the order of rows of one date is whatever
\* the database yields)
OrdenadasPorDataDesc(linhas, I) ==
    IF I = {} THEN {<<>>}
    ELSE UNION {{<<LinhaDoHistorico(linhas[i])>> \o s :
                    s \in OrdenadasPorDataDesc(linhas, I \ {i})} :
                i \in {j \in I : \A k \in I : linhas[j].data >= linhas[k].data}}

\* mutant of SelectComprasValidas: the query has no "AND data >= %s"
SelectComprasValidasSemJanela(linhas, data_limite) ==
    OrdenadasPorDataDesc(linhas, DOMAIN linhas)

\* lines 265-268: SELECT ... FROM compras WHERE codigo_cliente = %s AND data >= %s
\* ORDER BY data DESC: the results the query can give
SelectComprasValidas(linhas, data_limite) ==
    OrdenadasPorDataDesc(linhas, {i \in DOMAIN linhas : linhas[i].data >= data_limite})

\* lines 264-268: the second data_limite and the list of purchases
TxStatusLista(t, lista, dia) ==
    [t EXCEPT !.pc = "st_commit", !.data_lista = dia, !.historico_compras_validas = lista]

\* the dictionary of lines 272-286
ResultadoStatus(t) ==
    LET d == CHOOSE x \in t.cliente_data : TRUE IN
    [SemResultado EXCEPT
       !.op = "status", !.status = "ok", !.codigo = t.codigo,
       !.pontos_acumulados = t.pontos_totais_validos,
       !.compras_no_ciclo = d.compras_ciclo_atual,
       !.habilitado_para_gerar_premio = (d.compras_ciclo_atual >= LimiteCiclo),
       !.codigo_premio_ativo =
          IF t.premio_ativo = {} THEN 0 ELSE (CHOOSE p \in t.premio_ativo : TRUE).codigo_premio,
       !.pontos_premio =
          IF t.premio_ativo = {} THEN 0 ELSE (CHOOSE p \in t.premio_ativo : TRUE).pontos_premio,
       !.valor_resgatado =
          IF t.premio_ativo = {} THEN 0
          ELSE ValorResgatado((CHOOSE p \in t.premio_ativo : TRUE).pontos_premio),
       !.historico_compras_validas = t.historico_compras_validas,
       !.compras_vistas = t.compras_vistas,
       !.data_calculo = t.data_calculo, !.data_lista = t.data_lista,
       !.inicio = t.inicio, !.commit = TRUE]

(* ------------------------------- locks ---------------------------------- *)

\* mutant of BloqueiaCliente: the SELECT on clientes takes no row lock (no FOR UPDATE)
BloqueiaClienteSemLock(w, c) == {}

\* the other transactions holding the row locks on clientes row c
BloqueiaCliente(w, c) == {lockCliente[c]} \ {0, w}

\* mutant of BloqueiaPremios: statements on premios_ativos do not wait for row locks
BloqueiaPremiosSemLock(w, ks) == {}

\* the other transactions holding a lock on a premios_ativos row or index entry
BloqueiaPremios(w, ks) == {lockPremio[k] : k \in ks} \ {0, w}

\* the other transactions with an uncommitted insert or delete of a prize of customer c
PendentesDoCliente(w, c) ==
    {x \in Workers \ {w} :
        \E p \in tx[x].w_premios_del \cup tx[x].w_premios_ins : p.codigo_cliente = c}

\* the codes of the rows a statement of w on customer c's prize rows must lock
CodigosDoCliente(c) == {p.codigo_premio : p \in SelectPremioDoCliente(DB, c)}

\* the transactions worker w's next statement waits for
Espera(w) ==
    LET t == tx[w] IN
    CASE t.pc = "rc_lock" /\ t.codigo \in Clientes -> BloqueiaCliente(w, t.codigo)
      [] t.pc = "rc_premio" /\ TransicaoPremio(t) = "acumula" ->
            BloqueiaPremios(w, CodigosDoCliente(t.codigo))
      [] t.pc = "rc_premio" /\ TransicaoPremio(t) = "gera" ->
            BloqueiaPremios(w, {t.codigo_premio_ativo}) \cup PendentesDoCliente(w, t.codigo)
      [] t.pc = "rp_sel" /\ SelectPremioPorCodigo(DB, t.codigo_premio) # {} ->
            BloqueiaPremios(w, {t.codigo_premio})
      [] t.pc = "rp_upd" -> BloqueiaCliente(w, t.codigo)
      [] t.pc = "st_upd" -> BloqueiaCliente(w, t.codigo)
      [] OTHER -> {}

RECURSIVE EsperaAte(_, _)
\* the transactions reachable from the set S along at most n waits
EsperaAte(S, n) ==
    IF n = 0 THEN S ELSE EsperaAte(S \cup UNION {Espera(x) : x \in S}, n - 1)

\* w is on a cycle of waits
EmDeadlock(w) == Espera(w) # {} /\ w \in EsperaAte(Espera(w), NumWorkers)

\* mutant of LiberaCliente: the end of the transaction leaves its clientes row locks
LiberaClienteSemSoltar(w) == lockCliente

\* the locks once w's transaction has ended
LiberaCliente(w) == [c \in Clientes |-> IF lockCliente[c] = w THEN 0 ELSE lockCliente[c]]
LiberaPremio(w) == [k \in Codigos |-> IF lockPremio[k] = w THEN 0 ELSE lockPremio[k]]

(* ------------------------------ actions --------------------------------- *)

Ociosos == \A w \in Workers : tx[w].pc = "idle"

\* a call begins with conn = self._get_conexao(): getconn hands out a connection
\* while fewer than maxconn are checked out; a call that begins while no other is
\* running opens a new batch
Comeca(w, t) ==
    /\ tx[w].pc = "idle"
    /\ chamadas < MaxChamadas
    /\ chamadas' = chamadas + 1
    /\ connection_pool < maxconn
    /\ connection_pool' = connection_pool + 1
    /\ tx' = [tx EXCEPT ![w] = [t EXCEPT !.inicio = Len(historico)]]
    /\ IF Ociosos
       THEN base' = DB /\ inicio_lote' = Len(historico)
       ELSE UNCHANGED <<base, inicio_lote>>
    /\ UNCHANGED <<dbVars, lockVars, notificacoes, hoje, historico>>

\* a call returns res (or raises): the connection goes back to the pool and the
\* locks of its transaction are gone (finally: self._release_conexao(conn))
Devolve(w, res) ==
    /\ tx' = [tx EXCEPT ![w] = TxOcioso]
    /\ historico' = Append(historico, res)
    /\ lockCliente' = LiberaCliente(w)
    /\ lockPremio' = LiberaPremio(w)
    /\ connection_pool' = connection_pool - 1
    /\ UNCHANGED <<hoje, chamadas, base, inicio_lote>>

\* a call returns res (or raises) and starts no thread
Termina(w, res) ==
    /\ Devolve(w, res)
    /\ UNCHANGED notificacoes

\* the step of a transaction that stays open with record t
Passo(w, t) ==
    /\ tx' = [tx EXCEPT ![w] = t]
    /\ UNCHANGED <<dbVars, notificacoes, hoje, chamadas, connection_pool, histVars>>

\* the committed tables become db
Grava(db) ==
    /\ clientes' = db.clientes
    /\ compras' = db.compras
    /\ premios_ativos' = db.premios_ativos
    /\ premios_resgatados' = db.premios_resgatados
    /\ ultimo_recalculo' = db.ultimo_recalculo
    /\ UNCHANGED codigo_cliente_seq

\* registrar_compra(codigo, valor, loja_compra) is called
registrar_compra(w, c, v) ==
    Comeca(w, [TxOcioso EXCEPT !.pc = "rc_lock", !.op = "compra", !.codigo = c, !.valor = v])

\* lines 184-188: SELECT ... FOR UPDATE finds no row, return None
registrar_compra_nao_encontrado(w) ==
    /\ tx[w].pc = "rc_lock"
    /\ tx[w].codigo \notin Clientes
    /\ Termina(w, ResultadoSem(tx[w], "notfound", ""))
    /\ UNCHANGED dbVars

\* lines 184-202: SELECT ... FOR UPDATE gets the row lock; INSERT INTO compras;
\* UPDATE clientes
registrar_compra_select_for_update(w) ==
    /\ tx[w].pc = "rc_lock"
    /\ tx[w].codigo \in Clientes
    /\ Espera(w) = {}
    /\ lockCliente' = [lockCliente EXCEPT ![tx[w].codigo] = w]
    /\ Passo(w, TxSelectForUpdate(tx[w], DB, hoje))
    /\ UNCHANGED lockPremio

\* line 204: _calcular_pontos_validos
registrar_compra_calcular(w) ==
    /\ tx[w].pc = "rc_calc"
    /\ Passo(w, TxCalcular(tx[w], DB, hoje, "rc_sel"))
    /\ UNCHANGED lockVars

\* lines 206-217: SELECT on premios_ativos; the code is drawn when a prize is due
registrar_compra_select_premio(w) ==
    /\ tx[w].pc = "rc_sel"
    /\ \E k \in Codigos \cup {0} :
          /\ (k # 0) <=> (TransicaoPremio(TxSelectPremio(tx[w], DB, 0)) = "gera")
          /\ Passo(w, TxSelectPremio(tx[w], DB, k))
    /\ UNCHANGED lockVars

\* lines 211-221: UPDATE or INSERT on premios_ativos, once the rows it needs are free
registrar_compra_premio(w) ==
    /\ tx[w].pc = "rc_premio"
    /\ Espera(w) = {}
    /\ ~FalhaIntegridade(tx[w], DB)
    /\ lockPremio' =
          [k \in Codigos |->
             IF k \in {p.codigo_premio : p \in TxPremio(tx[w], DB).w_premios_ins}
             THEN w ELSE lockPremio[k]]
    /\ Passo(w, TxPremio(tx[w], DB))
    /\ UNCHANGED lockCliente

\* lines 218-220 and 242-245: the INSERT violates a unique constraint; rollback, raise
registrar_compra_integridade(w) ==
    /\ tx[w].pc = "rc_premio"
    /\ Espera(w) = {}
    /\ FalhaIntegridade(tx[w], DB)
    /\ Termina(w, ResultadoSem([tx[w] EXCEPT !.tentativas = @ + 1], "falha", "integridade"))
    /\ UNCHANGED dbVars

\* lines 223-234 and 241: conn.commit() applies the writes and ends the transaction;
\* resultado_compra; a customer without email gets the result at once
registrar_compra_commit(w) ==
    /\ tx[w].pc = "rc_commit"
    /\ Grava(Efetivar(DB, tx[w]))
    /\ IF TemEmail(tx[w])
       THEN /\ tx' = [tx EXCEPT ![w] = TxAposCommit(tx[w])]
            /\ lockCliente' = LiberaCliente(w)
            /\ lockPremio' = LiberaPremio(w)
            /\ UNCHANGED <<notificacoes, hoje, chamadas, connection_pool, histVars>>
       ELSE Termina(w, ResultadoCompra(tx[w]))

\* lines 234-241: threading.Thread(...).start() starts the email thread; return
\* resultado_compra
registrar_compra_notificar(w) ==
    /\ tx[w].pc = "rc_email"
    /\ notificacoes' = Append(notificacoes, Notificacao(tx[w]))
    /\ Devolve(w, ResultadoCompra(tx[w]))
    /\ UNCHANGED dbVars

\* lines 235-239 and 242-245: Thread.start() raises RuntimeError (the thread cannot
\* be started); the except branch calls rollback on the committed transaction and
\* raises Exception
registrar_compra_thread_falha(w) ==
    /\ tx[w].pc = "rc_email"
    /\ Termina(w, [ResultadoSem(tx[w], "falha", "thread") EXCEPT !.commit = TRUE])
    /\ UNCHANGED dbVars

\* resgatar_premio(codigo_premio, loja_resgate) is called
resgatar_premio(w, k) ==
    Comeca(w, [TxOcioso EXCEPT !.pc = "rp_sel", !.op = "resgate", !.codigo_premio = k])

\* lines 307-309: no row, return False
resgatar_premio_nao_encontrado(w) ==
    /\ tx[w].pc = "rp_sel"
    /\ Espera(w) = {}
    /\ SelectPremioPorCodigo(DB, tx[w].codigo_premio) = {}
    /\ Termina(w, ResultadoSem(tx[w], "notfound", ""))
    /\ UNCHANGED dbVars

\* lines 307-321: SELECT ... FOR UPDATE locks the prize row; INSERT INTO
\* premios_resgatados; DELETE FROM premios_ativos
resgatar_premio_select_for_update(w) ==
    /\ tx[w].pc = "rp_sel"
    /\ Espera(w) = {}
    /\ SelectPremioPorCodigo(DB, tx[w].codigo_premio) # {}
    /\ lockPremio' = [lockPremio EXCEPT ![tx[w].codigo_premio] = w]
    /\ Passo(w, TxResgateSelect(tx[w], DB, hoje))
    /\ UNCHANGED lockCliente

\* lines 323-325: UPDATE clientes takes the customer's row lock; recompute
resgatar_premio_update_cliente(w) ==
    /\ tx[w].pc = "rp_upd"
    /\ Espera(w) = {}
    /\ lockCliente' = [lockCliente EXCEPT ![tx[w].codigo] = w]
    /\ Passo(w, TxResgateUpdate(tx[w], DB, hoje))
    /\ UNCHANGED lockPremio

\* lines 327-328: conn.commit(), return True
resgatar_premio_commit(w) ==
    /\ tx[w].pc = "rp_commit"
    /\ Grava(Efetivar(DB, tx[w]))
    /\ Termina(w, ResultadoResgate(tx[w]))

\* PostgreSQL ends a cycle of lock waits by failing one waiting statement
\* (deadlock_detected); the except branch rolls back and raises
deadlock_detectado(w) ==
    /\ EmDeadlock(w)
    /\ Termina(w, ResultadoSem(tx[w], "falha", "deadlock"))
    /\ UNCHANGED dbVars

\* the date changes
avancar_dia ==
    /\ hoje < DiaInicial + MaxDias
    /\ hoje' = hoje + 1
    /\ UNCHANGED <<dbVars, lockVars, tx, notificacoes, chamadas, connection_pool, histVars>>

Next ==
    \/ \E w \in Workers, c \in CodigosCliente, v \in Valores : registrar_compra(w, c, v)
    \/ \E w \in Workers : registrar_compra_nao_encontrado(w)
    \/ \E w \in Workers : registrar_compra_select_for_update(w)
    \/ \E w \in Workers : registrar_compra_calcular(w)
    \/ \E w \in Workers : registrar_compra_select_premio(w)
    \/ \E w \in Workers : registrar_compra_premio(w)
    \/ \E w \in Workers : registrar_compra_integridade(w)
    \/ \E w \in Workers : registrar_compra_commit(w)
    \/ \E w \in Workers : registrar_compra_notificar(w)
    \/ \E w \in Workers : registrar_compra_thread_falha(w)
    \/ \E w \in Workers, k \in Codigos : resgatar_premio(w, k)
    \/ \E w \in Workers : resgatar_premio_nao_encontrado(w)
    \/ \E w \in Workers : resgatar_premio_select_for_update(w)
    \/ \E w \in Workers : resgatar_premio_update_cliente(w)
    \/ \E w \in Workers : resgatar_premio_commit(w)
    \/ \E w \in Workers : deadlock_detectado(w)
    \/ avancar_dia

Spec == Init /\ [][Next]_vars

(* ------------- the first purchase of a newly registered customer -------- *)

\* cadastrar_cliente (lines 157-161) has inserted every customer with the column
\* defaults and no purchase has been registered
InitPontos ==
    /\ clientes = [c \in Clientes |->
          [email |-> EmailInicial(c), total_compras |-> 0, total_gasto |-> 0,
           compras_ciclo_atual |-> 0, pontos_acumulados |-> 0]]
    /\ compras = [c \in Clientes |-> <<>>]
    /\ premios_ativos = {}
    /\ premios_resgatados = <<>>
    /\ codigo_cliente_seq = NumClientes
    /\ ultimo_recalculo = [c \in Clientes |-> 0]
    /\ lockCliente = [c \in Clientes |-> 0]
    /\ lockPremio = [k \in Codigos |-> 0]
    /\ tx = [w \in Workers |-> TxOcioso]
    /\ notificacoes = <<>>
    /\ hoje = DiaInicial
    /\ chamadas = 0
    /\ connection_pool = 0
    /\ historico = <<>>
    /\ base = [clientes |-> clientes, compras |-> compras, premios_ativos |-> {},
               premios_resgatados |-> <<>>, ultimo_recalculo |-> [c \in Clientes |-> 0]]
    /\ inicio_lote = 0

\* the first call the service receives is registrar_compra with an amount of
\* whole cents
primeira_compra(w, c, v) ==
    /\ chamadas = 0
    /\ registrar_compra(w, c, v)

NextPontos ==
    \/ \E c \in Clientes, v \in ValoresEmCentavos : primeira_compra(1, c, v)
    \/ registrar_compra_select_for_update(1)
    \/ registrar_compra_calcular(1)
    \/ registrar_compra_select_premio(1)
    \/ registrar_compra_premio(1)
    \/ registrar_compra_commit(1)
    \/ registrar_compra_notificar(1)
    \/ registrar_compra_thread_falha(1)

SpecPontos == InitPontos /\ [][NextPontos]_vars


(* --------------------- the customer status read path -------------------- *)

\* obter_status_fidelidade(codigo) is called
obter_status_fidelidade(w, c) ==
    Comeca(w, [TxOcioso EXCEPT !.pc = "st_sel", !.op = "status", !.codigo = c])

\* lines 253-255: no row, return None
obter_status_fidelidade_nao_encontrado(w) ==
    /\ tx[w].pc = "st_sel"
    /\ tx[w].codigo \notin Clientes
    /\ Termina(w, ResultadoSem(tx[w], "notfound", ""))
    /\ UNCHANGED dbVars

\* lines 253-254: the customer row is read
obter_status_fidelidade_select(w) ==
    /\ tx[w].pc = "st_sel"
    /\ tx[w].codigo \in Clientes
    /\ Passo(w, TxStatusSelect(tx[w], DB))
    /\ UNCHANGED lockVars

\* line 257, _calcular_pontos_validos up to its SELECT
obter_status_fidelidade_soma(w) ==
    /\ tx[w].pc = "st_soma"
    /\ Passo(w, TxStatusSoma(tx[w], DB, hoje))
    /\ UNCHANGED lockVars

\* line 257, the UPDATE of _calcular_pontos_validos, once the customer row is free
obter_status_fidelidade_update(w) ==
    /\ tx[w].pc = "st_upd"
    /\ Espera(w) = {}
    /\ lockCliente' = [lockCliente EXCEPT ![tx[w].codigo] = w]
    /\ Passo(w, TxStatusUpdate(tx[w], DB))
    /\ UNCHANGED lockPremio

\* lines 260-262
obter_status_fidelidade_premio(w) ==
    /\ tx[w].pc = "st_premio"
    /\ Passo(w, TxStatusPremio(tx[w], DB))
    /\ UNCHANGED lockVars

\* lines 264-268
obter_status_fidelidade_lista(w) ==
    /\ tx[w].pc = "st_lista"
    /\ \E lista \in SelectComprasValidas(compras[tx[w].codigo], hoje - JanelaDias) :
          Passo(w, TxStatusLista(tx[w], lista, hoje))
    /\ UNCHANGED lockVars

\* lines 270-286: conn.commit(), return the dictionary
obter_status_fidelidade_commit(w) ==
    /\ tx[w].pc = "st_commit"
    /\ Grava(Efetivar(DB, tx[w]))
    /\ Termina(w, ResultadoStatus(tx[w]))

\* Customer 1 has made ComprasIniciais purchases of 5.00, half of them on day 0
\* and the others on day 1, its balance last recomputed on day 1; the other
\* customers have just been registered.
InitStatus ==
    /\ clientes = [c \in Clientes |->
          [email |-> EmailInicial(c),
           total_compras |-> IF c = 1 THEN ComprasIniciais ELSE 0,
           total_gasto |-> IF c = 1 THEN ComprasIniciais * 5000 ELSE 0,
           compras_ciclo_atual |-> IF c = 1 THEN ComprasIniciais ELSE 0,
           pontos_acumulados |-> IF c = 1 THEN ComprasIniciais * PontosGerados(5000) ELSE 0]]
    /\ compras = [c \in Clientes |->
          IF c = 1
          THEN [n \in 1..ComprasIniciais |->
                  [CompraInicial(c, n) EXCEPT !.data = IF 2 * n <= ComprasIniciais THEN 0 ELSE 1]]
          ELSE <<>>]
    /\ premios_ativos = {}
    /\ premios_resgatados = <<>>
    /\ codigo_cliente_seq = NumClientes
    /\ ultimo_recalculo = [c \in Clientes |-> IF c = 1 THEN 1 ELSE 0]
    /\ lockCliente = [c \in Clientes |-> 0]
    /\ lockPremio = [k \in Codigos |-> 0]
    /\ tx = [w \in Workers |-> TxOcioso]
    /\ notificacoes = <<>>
    /\ hoje = DiaInicial
    /\ chamadas = 0
    /\ connection_pool = 0
    /\ historico = <<>>
    /\ base = [clientes |-> clientes, compras |-> compras, premios_ativos |-> {},
               premios_resgatados |-> <<>>, ultimo_recalculo |-> ultimo_recalculo]
    /\ inicio_lote = 0

NextStatus ==
    \/ \E w \in Workers, c \in CodigosCliente : obter_status_fidelidade(w, c)
    \/ \E w \in Workers : obter_status_fidelidade_nao_encontrado(w)
    \/ \E w \in Workers : obter_status_fidelidade_select(w)
    \/ \E w \in Workers : obter_status_fidelidade_soma(w)
    \/ \E w \in Workers : obter_status_fidelidade_update(w)
    \/ \E w \in Workers : obter_status_fidelidade_premio(w)
    \/ \E w \in Workers : obter_status_fidelidade_lista(w)
    \/ \E w \in Workers : obter_status_fidelidade_commit(w)
    \/ \E w \in Workers, c \in Clientes, v \in Valores : registrar_compra(w, c, v)
    \/ \E w \in Workers : registrar_compra_select_for_update(w)
    \/ \E w \in Workers : registrar_compra_calcular(w)
    \/ \E w \in Workers : registrar_compra_select_premio(w)
    \/ \E w \in Workers : registrar_compra_premio(w)
    \/ \E w \in Workers : registrar_compra_commit(w)
    \/ \E w \in Workers : registrar_compra_notificar(w)
    \/ \E w \in Workers : registrar_compra_thread_falha(w)
    \/ avancar_dia

SpecStatus == InitStatus /\ [][NextStatus]_vars

(* ------------------------- the connection pool --------------------------- *)

\* the calls of buscar_cliente_por_codigo in progress on other threads of the
\* process: each holds one connection and writes nothing
ConsultasEmCurso == connection_pool - Cardinality({w \in Workers : tx[w].pc # "idle"})

\* buscar_cliente_por_codigo -> _executar_query, line 52: getconn hands out a
\* connection
buscar_cliente_por_codigo(c) ==
    /\ connection_pool < maxconn
    /\ connection_pool' = connection_pool + 1
    /\ UNCHANGED <<dbVars, lockVars, tx, notificacoes, hoje, chamadas, histVars>>

\* _executar_query, lines 54-57 and 66-68: the row is fetched and returned, the
\* connection goes back to the pool
buscar_cliente_por_codigo_retorna ==
    /\ ConsultasEmCurso > 0
    /\ connection_pool' = connection_pool - 1
    /\ UNCHANGED <<dbVars, lockVars, tx, notificacoes, hoje, chamadas, histVars>>

\* the call of operation op that getconn refused: PoolError("connection pool
\* exhausted") leaves the call
ResultadoPoolError(op, c, v) ==
    ResultadoSem([TxOcioso EXCEPT !.op = op, !.codigo = c, !.valor = v,
                                  !.inicio = Len(historico)], "falha", "pool")

\* _executar_query, lines 52 and 61-64: maxconn connections are checked out,
\* getconn raises PoolError at once; it is logged and raised again
buscar_cliente_por_codigo_pool_esgotado(c) ==
    /\ connection_pool = maxconn
    /\ chamadas < MaxChamadas
    /\ chamadas' = chamadas + 1
    /\ historico' = Append(historico, ResultadoPoolError("consulta", c, 0))
    /\ UNCHANGED <<dbVars, lockVars, tx, notificacoes, hoje, connection_pool,
                   base, inicio_lote>>

\* registrar_compra, line 181: conn = self._get_conexao() is outside the try;
\* maxconn connections are checked out and getconn raises PoolError at once
registrar_compra_pool_esgotado(w, c, v) ==
    /\ tx[w].pc = "idle"
    /\ connection_pool = maxconn
    /\ chamadas < MaxChamadas
    /\ chamadas' = chamadas + 1
    /\ historico' = Append(historico, ResultadoPoolError("compra", c, v))
    /\ UNCHANGED <<dbVars, lockVars, tx, notificacoes, hoje, connection_pool,
                   base, inicio_lote>>

\* one thread registers purchases while other threads of the process look
\* customers up
NextPool ==
    \/ \E c \in Clientes : buscar_cliente_por_codigo(c)
    \/ buscar_cliente_por_codigo_retorna
    \/ \E c \in Clientes : buscar_cliente_por_codigo_pool_esgotado(c)
    \/ \E c \in Clientes, v \in Valores : registrar_compra(1, c, v)
    \/ \E c \in Clientes, v \in Valores : registrar_compra_pool_esgotado(1, c, v)
    \/ registrar_compra_select_for_update(1)
    \/ registrar_compra_calcular(1)
    \/ registrar_compra_select_premio(1)
    \/ registrar_compra_premio(1)
    \/ registrar_compra_commit(1)
    \/ registrar_compra_notificar(1)
    \/ registrar_compra_thread_falha(1)

SpecPool == Init /\ [][NextPool]_vars


(* --------------- getconn on the threads of one worker process ----------- *)

\* main.py declares its endpoints with def, so each request runs its engine call
\* on a thread of the worker process, and all of them call getconn on the one
\* SimpleConnectionPool of lines 28-30, which takes no lock.  These are the calls
\* of buscar_cliente_por_codigo in progress on other threads when the calls
\* followed here begin; each holds one connection until after the last of them
ConsultasNoInicio == maxconn - 1

InitConexoes ==
    /\ clientes = [c \in Clientes |->
          [email |-> EmailInicial(c),
           total_compras |-> ComprasIniciais,
           total_gasto |-> ComprasIniciais * 5000,
           compras_ciclo_atual |-> ComprasIniciais,
           pontos_acumulados |-> ComprasIniciais * PontosGerados(5000)]]
    /\ compras = [c \in Clientes |-> [n \in 1..ComprasIniciais |-> CompraInicial(c, n)]]
    /\ premios_ativos = {}
    /\ premios_resgatados = <<>>
    /\ codigo_cliente_seq = NumClientes
    /\ ultimo_recalculo = [c \in Clientes |-> 0]
    /\ lockCliente = [c \in Clientes |-> 0]
    /\ lockPremio = [k \in Codigos |-> 0]
    /\ tx = [w \in Workers |-> TxOcioso]
    /\ notificacoes = <<>>
    /\ hoje = DiaInicial
    /\ chamadas = 0
    /\ connection_pool = ConsultasNoInicio
    /\ historico = <<>>
    /\ base = [clientes |-> clientes, compras |-> compras, premios_ativos |-> {},
               premios_resgatados |-> <<>>, ultimo_recalculo |-> [c \in Clientes |-> 0]]
    /\ inicio_lote = 0

\* the first statement of each operation once it has its connection
PrimeiroPasso(op) ==
    CASE op = "compra" -> "rc_lock"
      [] op = "resgate" -> "rp_sel"
      [] op = "status" -> "st_sel"
      [] OTHER -> "eq_fetch"

\* _get_conexao, line 40 -> getconn, with no idle connection kept: fewer than
\* maxconn connections are in use, so the thread goes on to open a new one;
\* psycopg2.connect blocks and other threads run before the connection is counted
_get_conexao(w, t) ==
    /\ tx[w].pc = "idle"
    /\ chamadas < MaxChamadas
    /\ chamadas' = chamadas + 1
    /\ connection_pool < maxconn
    /\ tx' = [tx EXCEPT ![w] = [t EXCEPT !.inicio = Len(historico), !.pc = "getconn"]]
    /\ IF Ociosos
       THEN base' = DB /\ inicio_lote' = Len(historico)
       ELSE UNCHANGED <<base, inicio_lote>>
    /\ UNCHANGED <<dbVars, lockVars, notificacoes, hoje, historico, connection_pool>>

\* the new connection is entered among those in use and handed to the caller
_get_conexao_conecta(w) ==
    /\ tx[w].pc = "getconn"
    /\ connection_pool' = connection_pool + 1
    /\ tx' = [tx EXCEPT ![w].pc = PrimeiroPasso(tx[w].op)]
    /\ UNCHANGED <<dbVars, lockVars, notificacoes, hoje, chamadas, histVars>>

\* registrar_compra, line 181
registrar_compra_get_conexao(w, c, v) ==
    _get_conexao(w, [TxOcioso EXCEPT !.op = "compra", !.codigo = c, !.valor = v])

\* resgatar_premio, line 304
resgatar_premio_get_conexao(w, k) ==
    _get_conexao(w, [TxOcioso EXCEPT !.op = "resgate", !.codigo_premio = k])

\* obter_status_fidelidade, line 250
obter_status_fidelidade_get_conexao(w, c) ==
    _get_conexao(w, [TxOcioso EXCEPT !.op = "status", !.codigo = c])

\* buscar_cliente_por_codigo -> _executar_query, line 53
_executar_query_get_conexao(w, c) ==
    _get_conexao(w, [TxOcioso EXCEPT !.op = "consulta", !.codigo = c])

\* _executar_query with fetch='one', lines 54-58 and 67-69: the row or None is
\* returned without a commit and the finally branch gives the connection back
_executar_query(w) ==
    /\ tx[w].pc = "eq_fetch"
    /\ Termina(w, ResultadoSem(tx[w], IF tx[w].codigo \in Clientes THEN "ok"
                                                                    ELSE "notfound", ""))
    /\ UNCHANGED dbVars

\* two threads of the process run purchases, redemptions, status reads and
\* lookups
NextConexoes ==
    \/ \E w \in Workers, c \in CodigosCliente, v \in Valores :
          registrar_compra_get_conexao(w, c, v)
    \/ \E w \in Workers, c \in Clientes, v \in Valores :
          registrar_compra_pool_esgotado(w, c, v)
    \/ \E w \in Workers, k \in Codigos : resgatar_premio_get_conexao(w, k)
    \/ \E w \in Workers, c \in CodigosCliente : obter_status_fidelidade_get_conexao(w, c)
    \/ \E w \in Workers, c \in CodigosCliente : _executar_query_get_conexao(w, c)
    \/ \E w \in Workers : _get_conexao_conecta(w)
    \/ \E w \in Workers : _executar_query(w)
    \/ \E w \in Workers : registrar_compra_nao_encontrado(w)
    \/ \E w \in Workers : registrar_compra_select_for_update(w)
    \/ \E w \in Workers : registrar_compra_calcular(w)
    \/ \E w \in Workers : registrar_compra_select_premio(w)
    \/ \E w \in Workers : registrar_compra_premio(w)
    \/ \E w \in Workers : registrar_compra_integridade(w)
    \/ \E w \in Workers : registrar_compra_commit(w)
    \/ \E w \in Workers : registrar_compra_notificar(w)
    \/ \E w \in Workers : registrar_compra_thread_falha(w)
    \/ \E w \in Workers : resgatar_premio_nao_encontrado(w)
    \/ \E w \in Workers : resgatar_premio_select_for_update(w)
    \/ \E w \in Workers : resgatar_premio_update_cliente(w)
    \/ \E w \in Workers : resgatar_premio_commit(w)
    \/ \E w \in Workers : obter_status_fidelidade_nao_encontrado(w)
    \/ \E w \in Workers : obter_status_fidelidade_select(w)
    \/ \E w \in Workers : obter_status_fidelidade_soma(w)
    \/ \E w \in Workers : obter_status_fidelidade_update(w)
    \/ \E w \in Workers : obter_status_fidelidade_premio(w)
    \/ \E w \in Workers : obter_status_fidelidade_lista(w)
    \/ \E w \in Workers : obter_status_fidelidade_commit(w)
    \/ \E w \in Workers : deadlock_detectado(w)

SpecConexoes == InitConexoes /\ [][NextConexoes]_vars


(* ------------- _calcular_pontos_validos on its own inputs --------------- *)

\* the dates of the purchases the function is applied to: 181 days before the
\* first day, 180 days before it, and that day
DatasDeCompra == {DiaInicial - JanelaDias - 1, DiaInicial - JanelaDias, DiaInicial}

RECURSIVE ComprasAte(_)
\* the sequences of at most n purchase facts (amount, date)
ComprasAte(n) ==
    IF n = 0 THEN {<<>>}
    ELSE ComprasAte(n - 1) \cup
         {Append(s, [valor |-> v, data |-> d]) :
             s \in {x \in ComprasAte(n - 1) : Len(x) = n - 1}, v \in Valores, d \in DatasDeCompra}

\* the compras rows of customer c for the facts fs, as registrar_compra inserts them
LinhasDe(c, fs) ==
    [n \in DOMAIN fs |->
        [codigo_cliente |-> c, numero_compra_geral |-> n, valor |-> fs[n].valor,
         pontos_gerados |-> PontosGerados(fs[n].valor), data |-> fs[n].data]]

RECURSIVE SomaValor(_)
SomaValor(linhas) == IF linhas = <<>> THEN 0 ELSE Head(linhas).valor + SomaValor(Tail(linhas))

\* Customer 1 has made any purchases of ComprasAte(MaxCompras), its cached balance
\* the sum of their points; the other customers have none.  A transaction of
\* worker 1 is open and is about to call _calcular_pontos_validos(codigo, cursor)
\* for one of the customers.
InitRecalculo ==
    /\ \E fs \in ComprasAte(MaxCompras) :
          /\ compras = [c \in Clientes |-> IF c = 1 THEN LinhasDe(c, fs) ELSE <<>>]
          /\ clientes = [c \in Clientes |->
                [email |-> EmailInicial(c),
                 total_compras |-> Len(compras[c]),
                 total_gasto |-> SomaValor(compras[c]),
                 compras_ciclo_atual |-> Len(compras[c]),
                 pontos_acumulados |-> SomaPontos(compras[c], DiaInicial - 2 * JanelaDias)]]
    /\ premios_ativos = {}
    /\ premios_resgatados = <<>>
    /\ codigo_cliente_seq = NumClientes
    /\ ultimo_recalculo = [c \in Clientes |-> DiaInicial - JanelaDias]
    /\ lockCliente = [c \in Clientes |-> 0]
    /\ lockPremio = [k \in Codigos |-> 0]
    /\ \E c \in Clientes :
          tx = [w \in Workers |->
                  IF w = 1 THEN [TxOcioso EXCEPT !.pc = "calc", !.op = "recalculo", !.codigo = c]
                  ELSE TxOcioso]
    /\ notificacoes = <<>>
    /\ hoje = DiaInicial
    /\ chamadas = 0
    /\ connection_pool = 1
    /\ historico = <<>>
    /\ base = [clientes |-> clientes, compras |-> compras, premios_ativos |-> {},
               premios_resgatados |-> <<>>, ultimo_recalculo |-> ultimo_recalculo]
    /\ inicio_lote = 0

\* lines 134-141: _calcular_pontos_validos(codigo_cliente, cursor) is called in the
\* open transaction; its UPDATE holds the customer's row lock from then on
_calcular_pontos_validos(w) ==
    /\ tx[w].pc = "calc"
    /\ chamadas < MaxChamadas
    /\ chamadas' = chamadas + 1
    /\ tx' = [tx EXCEPT ![w] = TxCalcular(tx[w], DB, hoje, "calc")]
    /\ lockCliente' = [lockCliente EXCEPT ![tx[w].codigo] = w]
    /\ UNCHANGED <<dbVars, lockPremio, notificacoes, hoje, connection_pool, histVars>>

\* the caller's conn.commit() after at least one call
recalculo_commit(w) ==
    /\ tx[w].pc = "calc"
    /\ chamadas > 0
    /\ Grava(Efetivar(DB, tx[w]))
    /\ Termina(w, [ResultadoSem(tx[w], "ok", "") EXCEPT
                      !.pontos_acumulados = tx[w].pontos_totais_validos, !.commit = TRUE])

NextRecalculo ==
    \/ _calcular_pontos_validos(1)
    \/ recalculo_commit(1)
    \/ avancar_dia

SpecRecalculo == InitRecalculo /\ [][NextRecalculo]_vars


(* ------------------------ customer registration -------------------------- *)

RECURSIVE Digitos(_)
\* the decimal digits of n >= 0, most significant first
Digitos(n) == IF n < 10 THEN <<n>> ELSE Append(Digitos(n \div 10), n % 10)

RECURSIVE ZerosAEsquerda(_, _)
\* s padded on the left with zeros to at least largura characters
ZerosAEsquerda(s, largura) ==
    IF Len(s) >= largura THEN s ELSE ZerosAEsquerda(<<0>> \o s, largura)

\* f"{n:05d}", as the sequence of its characters
Formata05d(n) == ZerosAEsquerda(Digitos(n), 5)

RECURSIVE Numero(_)
\* the number a string of digits denotes
Numero(s) == IF s = <<>> THEN 0 ELSE 10 * Numero(SubSeq(s, 1, Len(s) - 1)) + s[Len(s)]

\* the sequence has given no value yet (CREATE SEQUENCE ... START 1), or it has
\* given 99998 values; the customers registered before are not followed here
InitCadastro ==
    /\ clientes = <<>>
    /\ compras = <<>>
    /\ premios_ativos = {}
    /\ premios_resgatados = <<>>
    /\ codigo_cliente_seq \in {0, 99998}
    /\ ultimo_recalculo = <<>>
    /\ lockCliente = [c \in Clientes |-> 0]
    /\ lockPremio = [k \in Codigos |-> 0]
    /\ tx = [w \in Workers |-> TxOcioso]
    /\ notificacoes = <<>>
    /\ hoje = DiaInicial
    /\ chamadas = 0
    /\ connection_pool = 0
    /\ historico = <<>>
    /\ base = [clientes |-> <<>>, compras |-> <<>>, premios_ativos |-> {},
               premios_resgatados |-> <<>>, ultimo_recalculo |-> <<>>]
    /\ inicio_lote = 0

\* cadastrar_cliente(nome, telefone, email, ...) is called; email tells whether an
\* address was given
cadastrar_cliente(w, email) ==
    Comeca(w, [TxOcioso EXCEPT
                  !.pc = "cad_seq", !.op = "cadastro",
                  !.cliente_data = {[email |-> email, total_compras |-> 0,
                                     compras_ciclo_atual |-> 0]}])

\* lines 157-164: SELECT nextval('codigo_cliente_seq'), the identifier, INSERT INTO
\* clientes (the other columns take their defaults)
cadastrar_cliente_nextval(w) ==
    /\ tx[w].pc = "cad_seq"
    /\ codigo_cliente_seq' = codigo_cliente_seq + 1
    /\ tx' = [tx EXCEPT ![w] =
                [@ EXCEPT !.pc = "cad_commit",
                          !.novo_codigo = Formata05d(codigo_cliente_seq + 1),
                          !.w_cliente = {[email |-> TemEmail(tx[w]), total_compras |-> 0,
                                          total_gasto |-> 0, compras_ciclo_atual |-> 0,
                                          pontos_acumulados |-> 0]}]]
    /\ UNCHANGED <<clientes, compras, premios_ativos, premios_resgatados, ultimo_recalculo,
                   lockVars, notificacoes, hoje, chamadas, connection_pool, histVars>>

\* what cadastrar_cliente returns: novo_codigo
ResultadoCadastro(t) ==
    [SemResultado EXCEPT !.op = "cadastro", !.status = "ok", !.novo_codigo = t.novo_codigo,
                         !.inicio = t.inicio, !.commit = TRUE]

\* line 165: conn.commit() puts the row into clientes; without an address the call
\* returns novo_codigo at once
cadastrar_cliente_commit(w) ==
    /\ tx[w].pc = "cad_commit"
    /\ clientes' = clientes @@ (tx[w].novo_codigo :> CHOOSE r \in tx[w].w_cliente : TRUE)
    /\ compras' = compras @@ (tx[w].novo_codigo :> <<>>)
    /\ ultimo_recalculo' = ultimo_recalculo @@ (tx[w].novo_codigo :> hoje)
    /\ UNCHANGED <<premios_ativos, premios_resgatados, codigo_cliente_seq>>
    /\ IF TemEmail(tx[w])
       THEN /\ tx' = [tx EXCEPT ![w] = [@ EXCEPT !.pc = "cad_email", !.w_cliente = {}]]
            /\ UNCHANGED <<lockVars, notificacoes, hoje, chamadas, connection_pool, histVars>>
       ELSE Termina(w, ResultadoCadastro(tx[w]))

\* lines 167-170: the thread of send_welcome_email is started; return novo_codigo
cadastrar_cliente_notificar(w) ==
    /\ tx[w].pc = "cad_email"
    /\ notificacoes' = Append(notificacoes, [tipo |-> "boasvindas", para |-> tx[w].novo_codigo])
    /\ Devolve(w, ResultadoCadastro(tx[w]))
    /\ UNCHANGED dbVars

\* lines 168-169 and 174-176: Thread.start() raises; rollback (of nothing), raise
cadastrar_cliente_thread_falha(w) ==
    /\ tx[w].pc = "cad_email"
    /\ Termina(w, [ResultadoSem(tx[w], "falha", "thread") EXCEPT
                      !.novo_codigo = tx[w].novo_codigo, !.commit = TRUE])
    /\ UNCHANGED dbVars

NextCadastro ==
    \/ \E w \in Workers, email \in BOOLEAN : cadastrar_cliente(w, email)
    \/ \E w \in Workers : cadastrar_cliente_nextval(w)
    \/ \E w \in Workers : cadastrar_cliente_commit(w)
    \/ \E w \in Workers : cadastrar_cliente_notificar(w)
    \/ \E w \in Workers : cadastrar_cliente_thread_falha(w)

SpecCadastro == InitCadastro /\ [][NextCadastro]_vars


(* ----------------- DataManager construction at start-up ----------------- *)
(* Every worker process constructs a DataManager when it starts (main.py,   *)
(* lifespan, line 27) and so does migrate.py; __init__ runs                 *)
(* _iniciar_banco_de_dados, each command of which is a transaction of its   *)
(* own.  Several constructions may be under way, so either of the two table *)
(* replacements below can come at any time.                                 *)

\* the open transactions that have read or written premios_ativos: DROP TABLE
\* waits for them to end
UsandoPremiosAtivos ==
    {w \in Workers : tx[w].pc \in {"rc_premio", "rc_commit", "rp_upd", "rp_commit", "st_lista",
                                   "st_commit"}}

\* the open transactions that have written premios_resgatados
UsandoPremiosResgatados == {w \in Workers : tx[w].pc \in {"rp_upd", "rp_commit"}}

\* lines 77-85 and 122-126: DROP TABLE IF EXISTS premios_ativos, then CREATE TABLE
\* IF NOT EXISTS premios_ativos: the table is replaced by an empty one
_iniciar_banco_de_dados_premios_ativos ==
    /\ UsandoPremiosAtivos = {}
    /\ premios_ativos' = {}
    /\ UNCHANGED <<clientes, compras, premios_resgatados, codigo_cliente_seq, ultimo_recalculo,
                   lockVars, tx, notificacoes, hoje, chamadas, connection_pool, histVars>>

\* lines 86-96 and 122-126: DROP TABLE IF EXISTS premios_resgatados, then CREATE
\* TABLE IF NOT EXISTS premios_resgatados
_iniciar_banco_de_dados_premios_resgatados ==
    /\ UsandoPremiosResgatados = {}
    /\ premios_resgatados' = <<>>
    /\ UNCHANGED <<clientes, compras, premios_ativos, codigo_cliente_seq, ultimo_recalculo,
                   lockVars, tx, notificacoes, hoje, chamadas, connection_pool, histVars>>

\* one worker serves purchases and redemptions while other processes start
NextInicio ==
    \/ _iniciar_banco_de_dados_premios_ativos
    \/ _iniciar_banco_de_dados_premios_resgatados
    \/ \E c \in CodigosCliente, v \in Valores : registrar_compra(1, c, v)
    \/ registrar_compra_nao_encontrado(1)
    \/ registrar_compra_select_for_update(1)
    \/ registrar_compra_calcular(1)
    \/ registrar_compra_select_premio(1)
    \/ registrar_compra_premio(1)
    \/ registrar_compra_commit(1)
    \/ registrar_compra_notificar(1)
    \/ registrar_compra_thread_falha(1)
    \/ \E k \in Codigos : resgatar_premio(1, k)
    \/ resgatar_premio_nao_encontrado(1)
    \/ resgatar_premio_select_for_update(1)
    \/ resgatar_premio_update_cliente(1)
    \/ resgatar_premio_commit(1)
    \/ avancar_dia

SpecInicio == Init /\ [][NextInicio]_vars


(* --------------------- serial executions of a call ---------------------- *)

\* registrar_compra run alone on the tables db with the arguments and the dates of
\* the completed call e, drawing k if it draws
SerialCompra(db, e, k) ==
    LET t0 == [TxOcioso EXCEPT !.pc = "rc_lock", !.op = "compra",
                               !.codigo = e.codigo, !.valor = e.valor]
        t1 == TxSelectForUpdate(t0, db, e.data_atual)
        t2 == TxCalcular(t1, db, e.data_calculo, "rc_sel")
        t3 == TxSelectPremio(t2, db, k)
    IN IF e.codigo \notin Clientes \/ FalhaIntegridade(t3, db) THEN db
       ELSE Efetivar(db, TxPremio(t3, db))

\* resgatar_premio run alone on the tables db with the code and the dates of e
SerialResgate(db, e) ==
    LET t0 == [TxOcioso EXCEPT !.pc = "rp_sel", !.op = "resgate",
                               !.codigo_premio = e.codigo_premio]
    IN IF SelectPremioPorCodigo(db, e.codigo_premio) = {} THEN db
       ELSE Efetivar(db, TxResgateUpdate(TxResgateSelect(t0, db, e.data_atual),
                                         db, e.data_calculo))

\* the calls completed in the current batch (the calls since no call was running)
Lote == SubSeq(historico, inicio_lote + 1, Len(historico))

\* completed calls i and j ran concurrently: j began before i completed
Concorrentes(i, j) == i < j /\ historico[j].inicio < i

CompraOk(e) == e.op = "compra" /\ e.status = "ok"
\* the transaction of the completed purchase e committed (e may still have raised)
CompraConfirmada(e) == e.op = "compra" /\ e.commit
ResgateOk(e) == e.op = "resgate" /\ e.status = "ok"

(* ------------------- a customer in its second cycle --------------------- *)

\* Customer 1 made LimiteCiclo purchases of 5.00 on day 0, redeemed on day 1 the
\* prize they generated (its code the first of Codigos) and has made ComprasIniciais
\* purchases of 5.00 since, on that day; every other customer has made
\* ComprasIniciais purchases of 5.00 on day 0.  These are the tables registrar_compra
\* and resgatar_premio leave after those calls, made one after the other.
TabelasDoSegundoCiclo ==
    LET n1 == LimiteCiclo + ComprasIniciais
        pontos == PontosGerados(5000)
    IN [clientes |->
           [c \in Clientes |->
              [email |-> EmailInicial(c),
               total_compras |-> IF c = 1 THEN n1 ELSE ComprasIniciais,
               total_gasto |-> (IF c = 1 THEN n1 ELSE ComprasIniciais) * 5000,
               compras_ciclo_atual |-> ComprasIniciais,
               pontos_acumulados |-> (IF c = 1 THEN n1 ELSE ComprasIniciais) * pontos]],
        compras |->
           [c \in Clientes |->
              IF c = 1
              THEN [n \in 1..n1 |->
                      [CompraInicial(c, n) EXCEPT !.data = IF n <= LimiteCiclo THEN 0 ELSE 1]]
              ELSE [n \in 1..ComprasIniciais |-> CompraInicial(c, n)]],
        premios_ativos |-> {},
        premios_resgatados |->
           <<[codigo_premio |-> 1, codigo_cliente |-> 1,
              pontos_resgatados |-> LimiteCiclo * pontos,
              valor_resgatado |-> ValorResgatado(LimiteCiclo * pontos),
              data_geracao |-> 0, data_resgate |-> 1]>>,
        ultimo_recalculo |-> [c \in Clientes |-> IF c = 1 THEN 1 ELSE 0]]

InitSegundoCiclo ==
    /\ clientes = TabelasDoSegundoCiclo.clientes
    /\ compras = TabelasDoSegundoCiclo.compras
    /\ premios_ativos = TabelasDoSegundoCiclo.premios_ativos
    /\ premios_resgatados = TabelasDoSegundoCiclo.premios_resgatados
    /\ codigo_cliente_seq = NumClientes
    /\ ultimo_recalculo = TabelasDoSegundoCiclo.ultimo_recalculo
    /\ lockCliente = [c \in Clientes |-> 0]
    /\ lockPremio = [k \in Codigos |-> 0]
    /\ tx = [w \in Workers |-> TxOcioso]
    /\ notificacoes = <<>>
    /\ hoje = DiaInicial
    /\ chamadas = 0
    /\ connection_pool = 0
    /\ historico = <<>>
    /\ base = TabelasDoSegundoCiclo
    /\ inicio_lote = 0

SpecSegundoCiclo == InitSegundoCiclo /\ [][Next]_vars


(* --------------------- the endpoints of src/main.py --------------------- *)
(* the HTTP status an endpoint answers with, given what the engine call did *)

\* except Exception as e: raise HTTPException(status_code=500, detail=str(e)):
\* the branch catches whatever the try block raised, the HTTPException the block
\* raised itself included
ExceptException(levantado) == 500

\* POST /compras, lines 182-190.  The result of registrar_compra is unpacked into
\* four names: None cannot be unpacked (TypeError) and the dictionary has five keys
\* (ValueError), so the lines after the unpacking are never reached
adicionar_compra(res) ==
    CASE res.status = "falha" -> ExceptException("Exception")
      [] res.status = "notfound" -> ExceptException("TypeError")
      [] OTHER -> ExceptException("ValueError")

\* POST /premios/resgatar/{codigo_premio}, lines 227-233
resgatar_premio_endpoint(res) ==
    CASE res.status = "falha" -> ExceptException("Exception")
      [] res.status = "ok" -> 200
      [] OTHER -> ExceptException("HTTPException 400")

\* GET /clientes/{codigo}, lines 159-164
buscar_cliente_por_codigo_endpoint(res) ==
    CASE res.status = "falha" -> ExceptException("Exception")
      [] res.status = "ok" -> 200
      [] OTHER -> ExceptException("HTTPException 404")

\* the answer to the request whose engine call ended as e
Resposta(e) ==
    CASE e.op = "compra" -> adicionar_compra(e)
      [] e.op = "resgate" -> resgatar_premio_endpoint(e)
      [] OTHER -> buscar_cliente_por_codigo_endpoint(e)


(* ------------------- the messages of src/email_manager.py ---------------- *)

\* send_purchase_update_email, lines 58-95: mensagem_status for resultado_compra as
\* the thread received it (codigo_premio_ativo 0 is None); faltam is the number the
\* third message states
send_purchase_update_email(resultado_compra) ==
    IF resultado_compra.premio_gerado_nesta_compra /\ resultado_compra.codigo_premio_ativo # 0
    THEN [mensagem |-> "premio_gerado", codigo |-> resultado_compra.codigo_premio_ativo,
          faltam |-> 0]
    ELSE IF resultado_compra.compras_no_ciclo >= 5
         THEN [mensagem |-> "premio_ativo", codigo |-> 0, faltam |-> 0]
         ELSE [mensagem |-> "faltam", codigo |-> 0,
               faltam |-> 5 - resultado_compra.compras_no_ciclo]


(* ------------------------------- claims --------------------------------- *)

\* C1: in every reachable state each customer has at most one row in
\* premios_ativos, whatever the interleaving of purchases and redemptions.
C1_UmPremioPorCliente ==
    \A p \in premios_ativos, q \in premios_ativos :
        p.codigo_cliente = q.codigo_cliente => p = q

\* C1 witness: a purchase has committed for a customer who already had a prize,
\* and that customer still has it.
C1_Witness ==
    \E i \in DOMAIN historico :
        /\ CompraOk(historico[i])
        /\ historico[i].codigo_premio_ativo # 0
        /\ ~historico[i].premio_gerado_nesta_compra
        /\ \E p \in premios_ativos : p.codigo_cliente = historico[i].codigo

\* the completed purchases of customer c whose transaction committed
ComprasConfirmadas(c) ==
    {i \in DOMAIN historico : CompraConfirmada(historico[i]) /\ historico[i].codigo = c}

\* the purchases of customer c that have committed and not yet returned
ComprasAposCommit(c) == {w \in Workers : tx[w].pc = "rc_email" /\ tx[w].codigo = c}

RECURSIVE SomaValorChamadas(_)
SomaValorChamadas(I) ==
    IF I = {} THEN 0
    ELSE LET i == CHOOSE j \in I : TRUE IN historico[i].valor + SomaValorChamadas(I \ {i})

RECURSIVE SomaValorAposCommit(_)
SomaValorAposCommit(W) ==
    IF W = {} THEN 0
    ELSE LET w == CHOOSE x \in W : TRUE IN tx[w].valor + SomaValorAposCommit(W \ {w})

CompraEResgateConcorrentes ==
    /\ Len(Lote) = 2
    /\ Concorrentes(inicio_lote + 1, inicio_lote + 2)
    /\ \E i \in 1..2 : CompraConfirmada(Lote[i]) /\ ResgateOk(Lote[3 - i])
    /\ Lote[1].codigo = Lote[2].codigo
    /\ \A w \in Workers : tx[w].pc # "rc_email"

\* C3: when a purchase and a redemption of the same customer run concurrently and
\* both commit, the committed tables are those of one of the two serial orders
\* run on the tables the two calls started from.
C3_CompraResgateSerializaveis ==
    CompraEResgateConcorrentes =>
        LET p == IF CompraConfirmada(Lote[1]) THEN Lote[1] ELSE Lote[2]
            r == IF CompraConfirmada(Lote[1]) THEN Lote[2] ELSE Lote[1]
        IN \E k \in Codigos :
              \/ DB = SerialResgate(SerialCompra(base, p, k), r)
              \/ DB = SerialCompra(SerialResgate(base, r), p, k)

\* C3 witness: such a pair of calls on a customer whose prize was active when both
\* began; the purchase committed first and the redemption paid out its points too.
C3_Witness ==
    /\ CompraEResgateConcorrentes
    /\ CompraConfirmada(Lote[1])
    /\ \E q \in SelectPremioDoCliente(base, Lote[1].codigo) :
          Lote[2].valor_resgatado > ValorResgatado(q.pontos_premio)

\* a resgatar_premio call of worker w returns in this step, and no other call has
\* completed since it began
ResgateRetornaSemIntercalar(w) ==
    /\ tx[w].op = "resgate"
    /\ tx'[w].pc = "idle"
    /\ tx[w].inicio = Len(historico)

\* what the call that returns in this step returns
Retorno == historico'[Len(historico')]

\* the call completed last was a successful redemption of code k
UltimaFoiResgateOk(k) ==
    /\ historico # <<>>
    /\ ResgateOk(historico[Len(historico)])
    /\ historico[Len(historico)].codigo_premio = k

\* C4: resgatar_premio is not idempotent.  A redemption of an active code that runs
\* with no other call running succeeds and inserts one premios_resgatados row; a
\* redemption of the same code called next returns NotFound and inserts none.
C4_ResgateNaoIdempotente ==
    [][\A w \in Workers :
          /\ ( /\ ResgateRetornaSemIntercalar(w)
               /\ \A x \in Workers \ {w} : tx[x].pc = "idle"
               /\ SelectPremioPorCodigo(DB, tx[w].codigo_premio) # {} )
             => ( /\ Retorno.status = "ok"
                  /\ Len(premios_resgatados') = Len(premios_resgatados) + 1 )
          /\ ( /\ ResgateRetornaSemIntercalar(w)
               /\ \A x \in Workers \ {w} : tx[x].pc = "idle"
               /\ UltimaFoiResgateOk(tx[w].codigo_premio) )
             => ( /\ Retorno.status = "notfound"
                  /\ premios_resgatados' = premios_resgatados )
      ]_vars

\* C4 witness: the last two completed calls are redemptions of one code, the second
\* begun after the first returned; the first succeeded and the second did not.
C4_Witness ==
    /\ Len(historico) >= 2
    /\ LET a == historico[Len(historico) - 1]
           b == historico[Len(historico)]
       IN /\ ResgateOk(a)
          /\ b.op = "resgate" /\ b.status = "notfound"
          /\ b.codigo_premio = a.codigo_premio
          /\ b.inicio = Len(historico) - 1
          /\ Len(premios_resgatados) = 1

\* the batch is over and all its calls were redemptions of the code k, which was
\* active when the batch began
LoteDeResgates(k) ==
    /\ Ociosos
    /\ Lote # <<>>
    /\ \A i \in DOMAIN Lote : Lote[i].op = "resgate" /\ Lote[i].codigo_premio = k
    /\ SelectPremioPorCodigo(base, k) # {}

\* C5: when only redemptions of one active code run concurrently, exactly one
\* succeeds, every other one returns NotFound, and exactly one premios_resgatados
\* row is inserted.
C5_UmResgatePorPremio ==
    \A k \in Codigos :
        LoteDeResgates(k) =>
            /\ Cardinality({i \in DOMAIN Lote : Lote[i].status = "ok"}) = 1
            /\ \A i \in DOMAIN Lote : Lote[i].status \in {"ok", "notfound"}
            /\ Len(premios_resgatados) = Len(base.premios_resgatados) + 1
            /\ SelectPremioPorCodigo(DB, k) = {}

\* C5 witness: two redemptions of one active code ran concurrently.
C5_Witness ==
    \E k \in Codigos :
        /\ LoteDeResgates(k)
        /\ Len(Lote) = 2
        /\ Concorrentes(inicio_lote + 1, inicio_lote + 2)

\* C6: for every customer, pontos_acumulados equals the sum of pontos_gerados over
\* the customer's committed purchases dated within the JanelaDias days before the
\* date of the last committed recompute.
C6_SaldoIgualASomaDaJanela ==
    \A c \in Clientes :
        clientes[c].pontos_acumulados
            = SomaPontos(compras[c], ultimo_recalculo[c] - JanelaDias)

\* C6 witness: a customer has a committed purchase made after the earlier ones left
\* the window, so the balance counts only part of the purchases.
C6_Witness ==
    \E c \in Clientes :
        /\ Len(compras[c]) > ComprasIniciais
        /\ clientes[c].pontos_acumulados > 0
        /\ clientes[c].pontos_acumulados < SomaPontos(compras[c], 0)

\* the codes on premios_resgatados rows
CodigosResgatados == {premios_resgatados[i].codigo_premio : i \in DOMAIN premios_resgatados}

\* C7: a prize code once issued is never issued again: no premios_ativos row carries
\* a code that another premios_ativos row carries or that is on a
\* premios_resgatados row.
C7_CodigoNuncaReemitido ==
    \A p \in premios_ativos :
        /\ \A q \in premios_ativos : q.codigo_premio = p.codigo_premio => q = p
        /\ p.codigo_premio \notin CodigosResgatados

\* C8: a registrar_compra whose drawn code collides draws again and retries the
\* INSERT; the call fails with the integrity error only after every one of several
\* attempts collided.
C8_ColisaoTentaDeNovo ==
    \A i \in DOMAIN historico :
        (historico[i].op = "compra" /\ historico[i].motivo = "integridade")
            => historico[i].tentativas > 1

\* worker w commits a purchase of customer c in this step
CompraConfirma(w, c) ==
    tx[w].pc = "rc_commit" /\ tx[w].codigo = c /\ tx'[w].pc # "rc_commit"

\* worker w commits a redemption of a prize of customer c in this step
ResgateConfirma(w, c) ==
    tx[w].pc = "rp_commit" /\ tx[w].codigo = c /\ tx'[w].pc = "idle"

\* C9: compras_ciclo_atual changes only at a commit: a committed redemption sets it
\* to zero, and every committed purchase, with or without an active prize and also
\* the one that generates the prize, raises it by exactly one.
C9_CicloSoZeraNoResgate ==
    [][\A c \in Clientes :
          LET antes == clientes[c].compras_ciclo_atual
              depois == clientes'[c].compras_ciclo_atual
          IN /\ depois # antes =>
                   \/ depois = 0 /\ \E w \in Workers : ResgateConfirma(w, c)
                   \/ depois = antes + 1 /\ \E w \in Workers : CompraConfirma(w, c)
             /\ (\E w \in Workers : CompraConfirma(w, c)) => depois = antes + 1
             /\ (\E w \in Workers : ResgateConfirma(w, c)) => depois = 0
      ]_vars

\* C9 witness: a customer with an active prize whose cycle counter has passed the
\* threshold (a purchase was counted while the prize was active).
C9_Witness ==
    \E p \in premios_ativos :
        clientes[p.codigo_cliente].compras_ciclo_atual > LimiteCiclo

\* C10: a committed registrar_compra creates the customer's premios_ativos row
\* exactly when the committed cycle count is at least LimiteCiclo, the committed
\* pontos_acumulados is positive and the customer had no prize; the new row's points
\* are the whole pontos_acumulados, and premio_gerado_agora, which the result
\* reports as premio_gerado_nesta_compra, tells it.
C10_GeracaoDoPremio ==
    [][\A w \in Workers, c \in Clientes :
          CompraConfirma(w, c) =>
             LET tinha == SelectPremioDoCliente(DB, c) # {}
                 depois == {p \in premios_ativos' : p.codigo_cliente = c}
                 criado == ~tinha /\ depois # {}
                 devido == /\ clientes'[c].compras_ciclo_atual >= LimiteCiclo
                           /\ clientes'[c].pontos_acumulados > 0
                           /\ ~tinha
             IN /\ criado <=> devido
                /\ criado =>
                     \A p \in depois : p.pontos_premio = clientes'[c].pontos_acumulados
                /\ ResultadoCompra(tx[w]).premio_gerado_nesta_compra <=> criado
      ]_vars

\* C10 witness: one purchase generated a prize whose points exceed the points of
\* that purchase and whose row carries the customer's whole balance, and another
\* reached the threshold with no valid points and generated none.
C10_Witness ==
    /\ \E i \in DOMAIN historico :
          /\ historico[i].premio_gerado_nesta_compra
          /\ historico[i].pontos_acumulados > historico[i].pontos_nesta_compra
          /\ \E p \in premios_ativos :
                /\ p.codigo_cliente = historico[i].codigo
                /\ p.codigo_premio = historico[i].codigo_premio_ativo
                /\ p.pontos_premio = historico[i].pontos_acumulados
    /\ \E i \in DOMAIN historico :
          /\ CompraOk(historico[i])
          /\ historico[i].compras_no_ciclo >= LimiteCiclo
          /\ historico[i].pontos_acumulados = 0
          /\ ~historico[i].premio_gerado_nesta_compra

\* C11: a committed registrar_compra for a customer who has a premios_ativos row
\* leaves the customer with exactly that one row, with the same code and the same
\* data_geracao and with pontos_premio raised by exactly the points of the purchase;
\* no other customer's row changes and compras_ciclo_atual still rises by one.
C11_CompraAcumulaNoPremio ==
    [][\A w \in Workers, c \in Clientes :
          (CompraConfirma(w, c) /\ SelectPremioDoCliente(DB, c) # {}) =>
             LET depois == {q \in premios_ativos' : q.codigo_cliente = c}
             IN /\ Cardinality(depois) = 1
                /\ \A p \in SelectPremioDoCliente(DB, c), q \in depois :
                      /\ q.codigo_premio = p.codigo_premio
                      /\ q.data_geracao = p.data_geracao
                      /\ q.pontos_premio = p.pontos_premio + PontosGerados(tx[w].valor)
                /\ premios_ativos' \ depois = premios_ativos \ SelectPremioDoCliente(DB, c)
                /\ clientes'[c].compras_ciclo_atual = clientes[c].compras_ciclo_atual + 1
      ]_vars

\* C11 witness: a purchase with points committed on a day after the day the
\* customer's prize was generated, and the prize row carries more points than the
\* balance it was generated from.
C11_Witness ==
    \E p \in premios_ativos, i \in DOMAIN historico :
        /\ historico[i].op = "compra" /\ historico[i].commit
        /\ historico[i].codigo = p.codigo_cliente
        /\ ~historico[i].premio_gerado_nesta_compra
        /\ historico[i].codigo_premio_ativo = p.codigo_premio
        /\ historico[i].pontos_nesta_compra > 0
        /\ p.data_ultima_atualizacao > p.data_geracao
        /\ p.pontos_premio > historico[i].pontos_nesta_compra

\* C12: the commit of a successful resgatar_premio appends exactly one
\* premios_resgatados row that carries the prize's code, customer, data_geracao and
\* its pontos_premio at that moment, with valor_resgatado = points / 100 (the same
\* number in centavos), removes exactly that premios_ativos row and sets the
\* customer's compras_ciclo_atual to 0, all in that one step; and
\* premios_resgatados changes in no other step.
C12_ResgateEmUmaTransacao ==
    [][/\ \A w \in Workers, c \in Clientes :
             ResgateConfirma(w, c) =>
                LET pa == SelectPremioPorCodigo(DB, tx[w].codigo_premio)
                IN /\ pa # {}
                   /\ \A p \in pa :
                         /\ p.codigo_cliente = c
                         /\ Len(premios_resgatados') = Len(premios_resgatados) + 1
                         /\ SubSeq(premios_resgatados', 1, Len(premios_resgatados))
                               = premios_resgatados
                         /\ LET r == premios_resgatados'[Len(premios_resgatados')]
                            IN /\ r.codigo_premio = p.codigo_premio
                               /\ r.codigo_cliente = c
                               /\ r.pontos_resgatados = p.pontos_premio
                               /\ r.valor_resgatado = p.pontos_premio
                               /\ r.data_geracao = p.data_geracao
                         /\ premios_ativos' = premios_ativos \ {p}
                         /\ clientes'[c].compras_ciclo_atual = 0
                         /\ Retorno.status = "ok"
                         /\ Retorno.valor_resgatado = p.pontos_premio
       /\ premios_resgatados' # premios_resgatados =>
             \E w \in Workers, c \in Clientes : ResgateConfirma(w, c)
      ]_vars

\* C12 witness: a prize was redeemed on a day after its generation; its customer
\* has no prize and a cycle count of zero.
C12_Witness ==
    \E i \in DOMAIN premios_resgatados :
        LET r == premios_resgatados[i]
        IN /\ r.pontos_resgatados > 0
           /\ r.data_resgate > r.data_geracao
           /\ clientes[r.codigo_cliente].compras_ciclo_atual = 0
           /\ SelectPremioDoCliente(DB, r.codigo_cliente) = {}

\* worker w's call returns (or raises) in this step
Retorna(w) == tx[w].pc # "idle" /\ tx'[w].pc = "idle"

\* C13: a resgatar_premio whose code is on no premios_ativos row returns NotFound,
\* and the step in which a resgatar_premio returns NotFound changes no row of
\* clientes, compras, premios_ativos or premios_resgatados; the call has written
\* nothing.
C13_ResgateInexistenteNadaMuda ==
    [][\A w \in Workers :
          /\ ( /\ tx[w].pc = "rp_sel" /\ Retorna(w)
               /\ SelectPremioPorCodigo(DB, tx[w].codigo_premio) = {} )
             => Retorno.status = "notfound"
          /\ (tx[w].op = "resgate" /\ Retorna(w) /\ Retorno.status = "notfound")
             => ( /\ UNCHANGED dbVars
                  /\ tx[w].w_resgatados = {} /\ tx[w].w_premios_del = {}
                  /\ tx[w].w_cliente = {} )
      ]_vars

\* C13 witness: the call completed last is a redemption that returned NotFound for
\* the code of the one prize redeemed so far; no prize is active.
C13_Witness ==
    /\ historico # <<>>
    /\ LET e == historico[Len(historico)]
       IN /\ e.op = "resgate" /\ e.status = "notfound"
          /\ e.codigo_premio \in CodigosResgatados
    /\ premios_ativos = {}
    /\ Len(premios_resgatados) = 1

\* C14: a registrar_compra for a codigo that no clientes row carries never gets
\* past its first SELECT; it returns NotFound, and in doing so inserts no compras
\* row, changes no clientes or prize row and starts no email thread.
C14_ClienteInexistenteNadaMuda ==
    [][\A w \in Workers :
          (tx[w].op = "compra" /\ tx[w].codigo \notin Clientes) =>
             /\ tx[w].pc = "rc_lock"
             /\ tx[w].w_compras = {} /\ tx[w].w_cliente = {} /\ tx[w].w_premios_ins = {}
             /\ Retorna(w) =>
                   /\ Retorno.status = "notfound"
                   /\ ~Retorno.commit
                   /\ UNCHANGED dbVars
                   /\ UNCHANGED notificacoes
      ]_vars

\* C14 witness: the call completed last is a purchase for a missing customer that
\* returned NotFound, after a purchase of an existing customer had committed and
\* started its email thread.
C14_Witness ==
    /\ historico # <<>>
    /\ LET e == historico[Len(historico)]
       IN e.op = "compra" /\ e.status = "notfound" /\ e.codigo \notin Clientes
    /\ Len(notificacoes) = 1
    /\ \E c \in Clientes : Len(compras[c]) = ComprasIniciais + 1

\* C15: a registrar_compra or resgatar_premio that fails leaves the tables as they
\* were before the call: once the calls of a batch have all ended in failure (each
\* raised after its transaction began), the committed tables are those the batch
\* began with; and the committed tables never show a part of a transaction (a
\* customer's compras rows and its total_compras always agree).
C15_FalhaDesfazTudo ==
    /\ ( /\ Ociosos
         /\ Lote # <<>>
         /\ \A i \in DOMAIN Lote : Lote[i].status = "falha" )
       => DB = base
    /\ \A c \in Clientes : Len(compras[c]) = clientes[c].total_compras

\* worker w holds no row lock and has no uncommitted write
SemTransacao(w) ==
    /\ \A c \in Clientes : lockCliente[c] # w
    /\ \A k \in Codigos : lockPremio[k] # w
    /\ tx[w].w_compras = {} /\ tx[w].w_cliente = {}
    /\ tx[w].w_premios_del = {} /\ tx[w].w_premios_ins = {}

\* C16: an email thread is started only by a registrar_compra whose transaction has
\* committed: in the step that starts one, the starting call holds no row lock and
\* has no uncommitted write, its compras row is in the committed table, and exactly
\* one thread is started; a call that was rolled back starts none.
C16_EmailSoDepoisDoCommit ==
    [][notificacoes' # notificacoes =>
          /\ Len(notificacoes') = Len(notificacoes) + 1
          /\ SubSeq(notificacoes', 1, Len(notificacoes)) = notificacoes
          /\ \E w \in Workers :
                /\ tx[w].op = "compra" /\ Retorna(w)
                /\ SemTransacao(w)
                /\ Retorno.commit
                /\ notificacoes'[Len(notificacoes')].para = tx[w].codigo
                /\ \E i \in DOMAIN compras[tx[w].codigo] :
                      compras[tx[w].codigo][i].numero_compra_geral = tx[w].total_compras_geral
      ]_vars

\* C16 witness: a customer with an email address had one purchase rolled back and
\* one committed; the only thread started is the one of the committed purchase,
\* which generated the prize.
C16_Witness ==
    /\ Len(notificacoes) = 1
    /\ notificacoes[1].premio_gerado_nesta_compra
    /\ \E i \in DOMAIN historico :
          /\ historico[i].op = "compra" /\ historico[i].status = "falha"
          /\ ~historico[i].commit
          /\ historico[i].codigo = notificacoes[1].para

\* C17: the email notification cannot make a call fail or undo its commit: a
\* registrar_compra whose transaction has committed returns resultado_compra and
\* leaves the tables alone, whether or not its email thread could be started.
C17_FalhaDeEmailNaoChegaAoChamador ==
    [][\A w \in Workers :
          (tx[w].pc = "rc_email" /\ Retorna(w)) =>
             /\ Retorno = ResultadoCompra(tx[w])
             /\ UNCHANGED dbVars
      ]_vars

\* C18: every resgatar_premio that has committed and returned success for a customer
\* with an email address has started a redemption notification to that customer.
C18_ResgateNotifica ==
    \A i \in DOMAIN historico :
        (ResgateOk(historico[i]) /\ clientes[historico[i].codigo].email) =>
            \E n \in DOMAIN notificacoes :
                /\ notificacoes[n].tipo = "resgate"
                /\ notificacoes[n].para = historico[i].codigo

\* C19: a registrar_compra never waits for a registrar_compra of another customer:
\* whenever the next statement of a purchase waits for a transaction that is a
\* purchase too, both are for the same customer.
C19_ClientesDiferentesNaoEsperam ==
    \A w \in Workers, x \in Workers :
        (tx[w].op = "compra" /\ tx[x].op = "compra" /\ x \in Espera(w))
            => tx[x].codigo = tx[w].codigo

\* C20: in the committed compras table the rows of every customer, in commit order,
\* carry the numero_compra_geral 1, 2, ..., n: no number twice and none missing,
\* whatever the interleaving of the purchases.
C20_NumeroDaCompraSemFalhas ==
    \A c \in Clientes :
        \A i \in DOMAIN compras[c] : compras[c][i].numero_compra_geral = i

\* C20 witness: two purchases of different amounts for one customer ran concurrently
\* and both committed; the customer's last two compras rows are theirs, in the
\* order of their commits.
C20_Witness ==
    \E i \in DOMAIN historico, j \in DOMAIN historico, c \in Clientes :
        /\ Concorrentes(i, j)
        /\ historico[i].op = "compra" /\ historico[i].commit /\ historico[i].codigo = c
        /\ historico[j].op = "compra" /\ historico[j].commit /\ historico[j].codigo = c
        /\ historico[i].valor # historico[j].valor
        /\ Len(compras[c]) = ComprasIniciais + 2
        /\ compras[c][ComprasIniciais + 1].valor # compras[c][ComprasIniciais + 2].valor

\* C21: a purchase of a whole number of cents generates as many points as it has
\* cents (floor(amount * 100)); and the first purchase of a customer without
\* purchases, of 10.00, returns 1000 points, a cycle count of 1 and no prize.
C21_PontosSaoOsCentavos ==
    \A i \in DOMAIN historico :
        LET e == historico[i] IN
        (CompraOk(e) /\ e.valor % 10 = 0) =>
            /\ e.pontos_nesta_compra = e.valor \div 10
            /\ e.valor = 10000 =>
                  /\ e.pontos_nesta_compra = 1000
                  /\ e.compras_no_ciclo = 1
                  /\ e.codigo_premio_ativo = 0
                  /\ ~e.premio_gerado_nesta_compra

\* the code on customer c's row of the prize table ativos, 0 when c has none
CodigoDoPremioDe(ativos, c) ==
    IF \E p \in ativos : p.codigo_cliente = c
    THEN (CHOOSE p \in ativos : p.codigo_cliente = c).codigo_premio
    ELSE 0

\* C22: the result of a successful registrar_compra matches the tables as its
\* conn.commit() leaves them: pontos_nesta_compra is the pontos_gerados of the
\* compras row it inserted, compras_no_ciclo and pontos_acumulados are the customer
\* row's values, codigo_premio_ativo is the code of the customer's premios_ativos
\* row (none when there is no row), and premio_gerado_nesta_compra is true exactly
\* when this commit put the customer's row into premios_ativos; and the result the
\* call returns is that one.
C22_ResultadoIgualAoCommit ==
    [][\A w \in Workers, c \in Clientes :
          /\ CompraConfirma(w, c) =>
                LET res == ResultadoCompra(tx[w])
                    linha == compras'[c][Len(compras'[c])]
                IN /\ Len(compras'[c]) = Len(compras[c]) + 1
                   /\ linha.numero_compra_geral = tx[w].total_compras_geral
                   /\ res.pontos_nesta_compra = linha.pontos_gerados
                   /\ res.compras_no_ciclo = clientes'[c].compras_ciclo_atual
                   /\ res.pontos_acumulados = clientes'[c].pontos_acumulados
                   /\ res.codigo_premio_ativo = CodigoDoPremioDe(premios_ativos', c)
                   /\ res.premio_gerado_nesta_compra
                        <=> /\ CodigoDoPremioDe(premios_ativos, c) = 0
                            /\ CodigoDoPremioDe(premios_ativos', c) # 0
          /\ (tx[w].op = "compra" /\ tx[w].codigo = c /\ Retorna(w) /\ CompraOk(Retorno)) =>
                /\ Retorno.codigo = c
                /\ Retorno.pontos_nesta_compra
                      = compras'[c][tx[w].total_compras_geral].pontos_gerados
                /\ Retorno.compras_no_ciclo = tx[w].compras_ciclo_atual_novo
                /\ Retorno.pontos_acumulados = tx[w].pontos_totais_validos
                /\ Retorno.codigo_premio_ativo = tx[w].codigo_premio_ativo
                /\ Retorno.premio_gerado_nesta_compra = tx[w].premio_gerado_agora
      ]_vars

\* C22 witness: one customer's purchases returned a newly generated prize and,
\* later, the same prize code without generating it; the customer's premios_ativos
\* row carries that code.
C22_Witness ==
    \E i \in DOMAIN historico, j \in DOMAIN historico :
        /\ i < j
        /\ CompraOk(historico[i]) /\ CompraOk(historico[j])
        /\ historico[i].codigo = historico[j].codigo
        /\ historico[i].premio_gerado_nesta_compra
        /\ ~historico[j].premio_gerado_nesta_compra
        /\ historico[j].codigo_premio_ativo = historico[i].codigo_premio_ativo
        /\ CodigoDoPremioDe(premios_ativos, historico[j].codigo)
              = historico[j].codigo_premio_ativo

\* the rows of the purchases linhas dated on or after data_limite
NaJanela(linhas, data_limite) == {i \in DOMAIN linhas : linhas[i].data >= data_limite}

\* C23: obter_status_fidelidade for an existing customer writes onto the customer
\* row the balance it returns, which is the sum of the points of the purchases it
\* read that are dated within JanelaDias days; it returns the customer's
\* premios_ativos row (none when there is none) and exactly the customer's
\* purchases dated within JanelaDias days, none before one of a later date; it
\* changes nothing else.  For a codigo without a clientes row it returns None and
\* writes nothing.
C23_StatusDoCliente ==
    [][\A w \in Workers :
          (tx[w].op = "status" /\ Retorna(w)) =>
             LET c == tx[w].codigo
                 lista == Retorno.historico_compras_validas
             IN IF c \in Clientes
                THEN /\ Retorno.status = "ok"
                     /\ clientes'[c] = [clientes[c] EXCEPT
                                           !.pontos_acumulados = Retorno.pontos_acumulados]
                     /\ Retorno.pontos_acumulados
                           = SomaPontos(SubSeq(compras[c], 1, Retorno.compras_vistas),
                                        Retorno.data_calculo - JanelaDias)
                     /\ Retorno.codigo_premio_ativo = CodigoDoPremioDe(premios_ativos, c)
                     /\ \A p \in premios_ativos :
                           p.codigo_cliente = c => Retorno.pontos_premio = p.pontos_premio
                     /\ Len(lista)
                           = Cardinality(NaJanela(compras[c], Retorno.data_lista - JanelaDias))
                     /\ \A i \in NaJanela(compras[c], Retorno.data_lista - JanelaDias) :
                           LET r == LinhaDoHistorico(compras[c][i])
                           IN Cardinality({j \in DOMAIN lista : lista[j] = r})
                                = Cardinality(
                                     {k \in NaJanela(compras[c], Retorno.data_lista - JanelaDias) :
                                         LinhaDoHistorico(compras[c][k]) = r})
                     /\ \A i \in DOMAIN lista, j \in DOMAIN lista :
                           i < j => lista[i].data >= lista[j].data
                     /\ UNCHANGED <<compras, premios_ativos, premios_resgatados, notificacoes>>
                     /\ \A d \in Clientes \ {c} : clientes'[d] = clientes[d]
                ELSE /\ Retorno.status = "notfound"
                     /\ tx[w].pc = "st_sel"
                     /\ tx[w].w_cliente = {}
                     /\ UNCHANGED dbVars
                     /\ UNCHANGED notificacoes
      ]_vars

\* C23 witness: the status call completed last returned a prize, a balance that
\* differs from the one cached before, and a list that holds purchases of two
\* dates and leaves out a purchase of the customer that is out of the window; an
\* earlier status call, for a codigo without a row, returned None.
C23_Witness ==
    /\ historico # <<>>
    /\ LET e == historico[Len(historico)]
       IN /\ e.op = "status" /\ e.status = "ok"
          /\ e.codigo_premio_ativo # 0
          /\ e.pontos_acumulados # ComprasIniciais * PontosGerados(5000)
          /\ clientes[e.codigo].pontos_acumulados = e.pontos_acumulados
          /\ Len(e.historico_compras_validas) >= 2
          /\ Len(e.historico_compras_validas) < Len(compras[e.codigo])
          /\ e.historico_compras_validas[1].data
                > e.historico_compras_validas[Len(e.historico_compras_validas)].data
    /\ \E i \in DOMAIN historico :
          /\ historico[i].op = "status" /\ historico[i].status = "notfound"
          /\ historico[i].codigo \notin Clientes

\* C24: a request is refused a connection only beyond the ceiling: when all the
\* connections of the pool are checked out a further request waits in line for
\* one instead of failing, so a call fails for lack of a connection only when more
\* requests are in progress than the pool has connections.  (No request of the
\* program waits for a connection, so the requests in progress are the
\* connections checked out.)
C24_PoolCheioEsperaNaFila ==
    [][(Len(historico') = Len(historico) + 1 /\ Retorno.motivo = "pool") =>
          /\ connection_pool > maxconn
          /\ Retorno.status = "falha"
      ]_vars

\* C25: a request whose engine call ended in NotFound (a purchase or a lookup for
\* a codigo without a clientes row, a redemption of a code without a
\* premios_ativos row) is answered 404, and only a request whose engine call
\* failed (raised) is answered 500.
C25_NotFoundEh404 ==
    \A i \in DOMAIN historico :
        /\ historico[i].status = "notfound" => Resposta(historico[i]) = 404
        /\ Resposta(historico[i]) = 500 => historico[i].status = "falha"

\* worker w calls _calcular_pontos_validos in this step
Recalcula(w) == tx[w].pc = "calc" /\ tx'[w].pc = "calc" /\ chamadas' = chamadas + 1

\* C26: _calcular_pontos_validos is idempotent: a call in a transaction that has
\* already called it for the same customer on the same date returns the sum the
\* earlier call returned and leaves the customer row as the earlier call left it;
\* the commit then writes that row, however many calls were made.
C26_RecalculoIdempotente ==
    [][\A w \in Workers :
          /\ (Recalcula(w) /\ tx[w].w_recalculo = {hoje}) =>
                /\ tx'[w].pontos_totais_validos = tx[w].pontos_totais_validos
                /\ tx'[w].w_cliente = tx[w].w_cliente
                /\ UNCHANGED dbVars
          /\ (tx[w].pc = "calc" /\ Retorna(w)) =>
                /\ clientes'[tx[w].codigo].pontos_acumulados = Retorno.pontos_acumulados
                /\ Retorno.pontos_acumulados
                      = SomaPontos(compras[tx[w].codigo], tx[w].data_calculo - JanelaDias)
      ]_vars

\* C26 witness: the function was called more than once on one date, for a customer
\* whose cached balance differed from the sum, and the transaction has committed
\* the sum.
C26_Witness ==
    /\ hoje = DiaInicial
    /\ chamadas >= 2
    /\ historico # <<>>
    /\ LET e == historico[Len(historico)]
       IN /\ e.op = "recalculo"
          /\ e.pontos_acumulados > 0
          /\ e.pontos_acumulados # base.clientes[e.codigo].pontos_acumulados
          /\ clientes[e.codigo].pontos_acumulados = e.pontos_acumulados

RECURSIVE SomaDosPontos(_, _)
\* the sum of pontos_gerados over the rows linhas[i], i in I
SomaDosPontos(linhas, I) ==
    IF I = {} THEN 0
    ELSE LET i == CHOOSE j \in I : TRUE
         IN linhas[i].pontos_gerados + SomaDosPontos(linhas, I \ {i})

\* C27: _calcular_pontos_validos returns the sum of the points of exactly the
\* customer's purchases dated on or after the date of the call minus JanelaDias (a
\* purchase made exactly JanelaDias days before counts, one made a day earlier
\* does not), 0 for a customer without purchases, and neither the call nor the
\* commit after it deletes or changes a compras row.
C27_JanelaDoRecalculo ==
    [][\A w \in Workers :
          /\ Recalcula(w) =>
                LET linhas == compras[tx[w].codigo]
                IN /\ tx'[w].pontos_totais_validos
                        = SomaDosPontos(linhas,
                             {i \in DOMAIN linhas : hoje - linhas[i].data <= JanelaDias})
                   /\ linhas = <<>> => tx'[w].pontos_totais_validos = 0
                   /\ tx'[w].w_compras = {}
                   /\ UNCHANGED compras
          /\ (tx[w].pc = "calc" /\ Retorna(w)) => UNCHANGED compras
      ]_vars

\* C27 witness: the call returned the points of a purchase made exactly JanelaDias
\* days before, leaving out a purchase of the same customer made the day before
\* that one; the transaction committed and both rows are in the table.
C27_Witness ==
    /\ historico # <<>>
    /\ LET e == historico[Len(historico)]
           linhas == compras[e.codigo]
       IN /\ e.op = "recalculo"
          /\ Len(linhas) = 2
          /\ e.data_calculo - linhas[1].data = JanelaDias + 1
          /\ e.data_calculo - linhas[2].data = JanelaDias
          /\ linhas[1].pontos_gerados > 0
          /\ e.pontos_acumulados = linhas[2].pontos_gerados
          /\ e.pontos_acumulados > 0

\* C28: every identifier cadastrar_cliente has assigned is a string of 5 decimal
\* digits, differs from every other identifier assigned, and denotes a greater
\* number than every identifier whose registration had returned before this one
\* began.
C28_CodigoDeCincoDigitos ==
    \A i \in DOMAIN historico :
        historico[i].op = "cadastro" /\ historico[i].commit =>
            /\ Len(historico[i].novo_codigo) = 5
            /\ \A n \in DOMAIN historico[i].novo_codigo : historico[i].novo_codigo[n] \in 0..9
            /\ \A j \in DOMAIN historico :
                  (j # i /\ historico[j].op = "cadastro" /\ historico[j].commit) =>
                      /\ historico[j].novo_codigo # historico[i].novo_codigo
                      /\ (i < j /\ ~Concorrentes(i, j)) =>
                            Numero(historico[j].novo_codigo) > Numero(historico[i].novo_codigo)

\* C29: a premios_ativos row is removed only by a resgatar_premio of its code that
\* commits and returns success: in every step after which a code that was on a
\* premios_ativos row is on none, a redemption of that code commits.
C29_PremioSoSaiNoResgate ==
    [][\A p \in premios_ativos :
          SelectPremioPorCodigo([premios_ativos |-> premios_ativos'], p.codigo_premio) = {} =>
             \E w \in Workers :
                /\ tx[w].pc = "rp_commit"
                /\ tx[w].codigo_premio = p.codigo_premio
                /\ Retorna(w)
                /\ ResgateOk(Retorno)
      ]_vars

\* C30: premios_resgatados is append-only: every row in the table stays in it,
\* unchanged and at its place, in every step.
C30_ResgatadosSoCrescem ==
    [][/\ Len(premios_resgatados') >= Len(premios_resgatados)
       /\ SubSeq(premios_resgatados', 1, Len(premios_resgatados)) = premios_resgatados
      ]_vars

\* a status read and a purchase of the same customer are the two calls of the
\* batch, ran concurrently and both committed, and both have returned
StatusECompraConcorrentes ==
    /\ Ociosos
    /\ Len(Lote) = 2
    /\ Concorrentes(inicio_lote + 1, inicio_lote + 2)
    /\ \E i \in 1..2 :
          /\ Lote[i].op = "status" /\ Lote[i].status = "ok"
          /\ CompraConfirmada(Lote[3 - i])
    /\ Lote[1].codigo = Lote[2].codigo

\* C31: when an obter_status_fidelidade and a registrar_compra of the same customer
\* run concurrently, then once both have committed the customer's
\* pontos_acumulados is the sum of pontos_gerados over all the customer's committed
\* purchases dated within JanelaDias days (of the date either call computed with):
\* the status read does not write back a sum that misses the purchase.
C31_StatusNaoPerdeCompra ==
    StatusECompraConcorrentes =>
        LET c == Lote[1].codigo
        IN \E i \in 1..2 :
              clientes[c].pontos_acumulados
                 = SomaPontos(compras[c], Lote[i].data_calculo - JanelaDias)

\* C32: the message of every purchase notification matches the prize state of the
\* result it was started with: it shows the prize code exactly when the purchase
\* generated the prize, it reminds that the prize can be redeemed exactly when the
\* customer had a prize before the purchase (the result carries a code that the
\* purchase did not generate), and otherwise it states a positive number of
\* purchases remaining to the threshold.
C32_MensagemConformeOPremio ==
    \A n \in DOMAIN notificacoes :
        LET r == notificacoes[n]
            m == send_purchase_update_email(r)
        IN /\ m.mensagem = "premio_gerado" <=> r.premio_gerado_nesta_compra
           /\ m.mensagem = "premio_gerado" => m.codigo = r.codigo_premio_ativo
           /\ m.mensagem = "premio_ativo"
                 <=> (r.codigo_premio_ativo # 0 /\ ~r.premio_gerado_nesta_compra)
           /\ m.mensagem = "faltam" => m.faltam > 0

RECURSIVE SomaResgatados(_, _)
\* the sum of pontos_resgatados over the rows of customer c in linhas
SomaResgatados(linhas, c) ==
    IF linhas = <<>> THEN 0
    ELSE (IF Head(linhas).codigo_cliente = c THEN Head(linhas).pontos_resgatados ELSE 0)
         + SomaResgatados(Tail(linhas), c)

\* the pontos_premio of customer c's premios_ativos row, 0 when c has none
PontosDoPremioDe(ativos, c) ==
    IF \E p \in ativos : p.codigo_cliente = c
    THEN (CHOOSE p \in ativos : p.codigo_cliente = c).pontos_premio
    ELSE 0

\* C33: points are never redeemed twice: for every customer, the points on its
\* premios_resgatados rows plus the points of its premios_ativos row (if any) do
\* not exceed the sum of pontos_gerados over all of the customer's purchases.
C33_PontosNuncaResgatadosDuasVezes ==
    \A c \in Clientes :
        SomaResgatados(premios_resgatados, c) + PontosDoPremioDe(premios_ativos, c)
            <= SomaPontos(compras[c], 0)

\* the purchase of worker w and the redemption of worker x, for the same customer,
\* each wait for a row lock the other holds
EsperaMutua(w, x) ==
    /\ tx[w].op = "compra" /\ tx[x].op = "resgate"
    /\ tx[w].codigo = tx[x].codigo
    /\ x \in Espera(w)
    /\ w \in Espera(x)

\* C34: no reachable state has a registrar_compra and a resgatar_premio for the same
\* customer each waiting for a row lock (clientes row, premios_ativos row) that the
\* other holds, so that every lock wait can end through the holder's own commit or
\* rollback.
C34_SemEsperaMutua ==
    \A w \in Workers, x \in Workers : ~EsperaMutua(w, x)

\* C35: whenever POST /compras or POST /premios/resgatar/{codigo_premio} answers
\* with a server error (500), the engine call of that request has committed
\* nothing, so that the request can be repeated without recording the purchase or
\* the redemption twice.
C35_ErroDoServidorNadaGravou ==
    \A i \in DOMAIN historico :
        (historico[i].op \in {"compra", "resgate"} /\ Resposta(historico[i]) = 500)
            => ~historico[i].commit

\* the counters of customer c's row in the table cs agree with the purchase rows ls
ContadoresConformeCompras(cs, ls, c) ==
    /\ cs[c].total_compras = Len(ls[c])
    /\ cs[c].total_gasto = SomaValor(ls[c])

C38_StatusConsistenteEmSi ==
    \A i \in DOMAIN historico :
        LET e == historico[i] IN
        (e.op = "status" /\ e.status = "ok" /\ e.data_calculo = e.data_lista) =>
            /\ e.pontos_acumulados = SomaPontos(e.historico_compras_validas, 0)
            /\ e.compras_no_ciclo >= Len(e.historico_compras_validas)

\* the threads followed here that hold a connection
ComConexao == {w \in Workers : tx[w].pc \notin {"idle", "getconn"}}

\* C37: every engine operation gives its connection back exactly once on every
\* exit path and leaves no transaction open on it: never more than maxconn
\* connections are checked out, each call in progress holds exactly one and a
\* call that is over holds none, and a call that is over holds no row lock and
\* has no uncommitted write.
C37_ConexaoDevolvidaUmaVez ==
    /\ connection_pool <= maxconn
    /\ connection_pool = ConsultasNoInicio + Cardinality(ComConexao)
    /\ \A w \in Workers : tx[w].pc \in {"idle", "getconn"} => SemTransacao(w)

====
